---- MODULE Spec2Model ----
(***************************************************************************)
(* A model of the DABOps bundle generator: the translation of a workflow   *)
(* detail into a resource document (bundle_generator.py), the batch        *)
(* orchestration and the unique workspace path (app.py), and the remote    *)
(* collaborator boundary (databricks_client.py, utils.py).                 *)
(*                                                                         *)
(* Python values are tagged records [t, v]:                                *)
(*   None, str (a sequence of string pieces, one piece per character for   *)
(*   the strings the code inspects), int, bool, list (a sequence of        *)
(*   values), dict (a sequence of <<key, value>> pairs in insertion        *)
(*   order) and obj (an SDK object: a function from the names of the       *)
(*   attributes it has to their values).                                   *)
(***************************************************************************)
EXTENDS Integers, Sequences, FiniteSets, TLC

\* ---------------------------------------------------------------- bounds
MaxNameLen == 2
MaxBatch == 3
MaxFaults == 1
MaxTick == 1

\* ---------------------------------------------------------------- values
PyNone == [t |-> "None", v |-> <<>>]
PyStr(s) == [t |-> "str", v |-> s]
PyInt(n) == [t |-> "int", v |-> n]
PyBool(b) == [t |-> "bool", v |-> b]
PyList(s) == [t |-> "list", v |-> s]
RawDict(s) == [t |-> "dict", v |-> s]
\* a dict written with literal keys; a key is kept as a string of pieces
PyDict(s) == RawDict([i \in DOMAIN s |-> << <<s[i][1]>>, s[i][2] >>])
PyObj(f) == [t |-> "obj", v |-> f]
EmptyAttrs == [a \in {} |-> PyNone]

IsNone(x) == x.t = "None"
IsTrue(x) == x.t = "bool" /\ x.v
IsEmptyList(x) == x.t = "list" /\ Len(x.v) = 0
IsEmptyDict(x) == x.t = "dict" /\ Len(x.v) = 0

\* Python truth value: None, "", 0, False, [] and {} are false; an object
\* without __bool__/__len__ is true.
Truthy(x) ==
    CASE x.t = "None" -> FALSE
      [] x.t = "str"  -> Len(x.v) > 0
      [] x.t = "int"  -> x.v /= 0
      [] x.t = "bool" -> x.v
      [] x.t = "list" -> Len(x.v) > 0
      [] x.t = "dict" -> Len(x.v) > 0
      [] OTHER        -> TRUE

HasAttr(o, a) == a \in DOMAIN o.v
GetAttr(o, a, default) == IF a \in DOMAIN o.v THEN o.v[a] ELSE default
\* the idiom  hasattr(o, 'a') and o.a
Present(o, a) == HasAttr(o, a) /\ Truthy(o.v[a])

\* the keys of a dict, each a string of pieces
KeySet(d) == {d.v[i][1] : i \in DOMAIN d.v}
\* the keys of a dict all of whose keys are literals
DictKeys(d) == {d.v[i][1][1] : i \in DOMAIN d.v}
HasKey(d, key) == key \in KeySet(d)
GetKey(d, key) == d.v[CHOOSE i \in DOMAIN d.v : d.v[i][1] = key][2]
DictHas(d, k) == HasKey(d, <<k>>)
DictGet(d, k) == GetKey(d, <<k>>)
\* dict.get(k, default)
DictGetOr(d, k, default) == IF DictHas(d, k) THEN DictGet(d, k) ELSE default
\* d[key] = x : replaces in place when the key is there, appends otherwise
SetKey(d, key, x) ==
    IF HasKey(d, key)
    THEN RawDict([i \in DOMAIN d.v |-> IF d.v[i][1] = key THEN <<key, x>> ELSE d.v[i]])
    ELSE RawDict(Append(d.v, <<key, x>>))
DictSet(d, k, x) == SetKey(d, <<k>>, x)

\* {k: v for k, v in d.items() if v is not None}
DropNone(d) == RawDict(SelectSeq(d.v, LAMBDA kv : ~IsNone(kv[2])))
\* {k: v for k, v in d.items() if v is not None and v != [] and v != {}}
DropEmpty(d) ==
    RawDict(SelectSeq(d.v, LAMBDA kv :
        ~IsNone(kv[2]) /\ ~IsEmptyList(kv[2]) /\ ~IsEmptyDict(kv[2])))

\* --------------------------------------------------------------- strings
UpperChars == <<"A","B","C","D","E","F","G","H","I","J","K","L","M",
                "N","O","P","Q","R","S","T","U","V","W","X","Y","Z">>
LowerChars == <<"a","b","c","d","e","f","g","h","i","j","k","l","m",
                "n","o","p","q","r","s","t","u","v","w","x","y","z">>
LowerChar(c) ==
    IF \E i \in DOMAIN UpperChars : UpperChars[i] = c
    THEN LowerChars[CHOOSE i \in DOMAIN UpperChars : UpperChars[i] = c]
    ELSE c
\* str.lower()
StrLower(s) == [i \in DOMAIN s |-> LowerChar(s[i])]
\* str.replace(old, new) for a one-character old
StrReplace(s, old, new) == [i \in DOMAIN s |-> IF s[i] = old THEN new ELSE s[i]]

RECURSIVE StringsUpTo(_, _)
StringsUpTo(alphabet, n) ==
    IF n = 0 THEN {<<>>}
    ELSE LET shorter == StringsUpTo(alphabet, n - 1)
         IN  shorter \cup {Append(s, c) : s \in shorter, c \in alphabet}

\* 'Unnamed Job', the name given to a job that has no settings
UnnamedJob == <<"U","n","n","a","m","e","d"," ","J","o","b">>
MapSeq(s, F(_)) == [i \in DOMAIN s |-> F(s[i])]
EmptyList == PyList(<<>>)
EmptyDict == PyDict(<<>>)
Lit(piece) == PyStr(<<piece>>)

\* ------------------------------------------------- bundle_generator.py
_convert_email_notifications(job_settings) ==
    IF ~HasAttr(job_settings, "email_notifications")
       \/ ~Truthy(job_settings.v["email_notifications"])
    THEN PyNone
    ELSE LET notifications == job_settings.v["email_notifications"]
         IN  PyDict(<<
               <<"on_start", GetAttr(notifications, "on_start", EmptyList)>>,
               <<"on_success", GetAttr(notifications, "on_success", EmptyList)>>,
               <<"on_failure", GetAttr(notifications, "on_failure", EmptyList)>>,
               <<"no_alert_for_skipped_runs",
                 GetAttr(notifications, "no_alert_for_skipped_runs", PyBool(FALSE))>> >>)

WebhookIds(notifications, event) ==
    PyList(MapSeq(GetAttr(notifications, event, EmptyList).v,
                  LAMBDA wh : PyDict(<< <<"id", wh.v["id"]>> >>)))

_convert_webhook_notifications(job_settings) ==
    IF ~HasAttr(job_settings, "webhook_notifications")
       \/ ~Truthy(job_settings.v["webhook_notifications"])
    THEN PyNone
    ELSE LET notifications == job_settings.v["webhook_notifications"]
         IN  PyDict(<<
               <<"on_start", WebhookIds(notifications, "on_start")>>,
               <<"on_success", WebhookIds(notifications, "on_success")>>,
               <<"on_failure", WebhookIds(notifications, "on_failure")>> >>)

\* a slip: a schedule block of defaults for a job that has no schedule
ScheduleWithDefaults(job_settings) ==
    LET has == HasAttr(job_settings, "schedule") /\ Truthy(job_settings.v["schedule"])
        schedule == IF has THEN job_settings.v["schedule"] ELSE PyObj(EmptyAttrs)
    IN  PyDict(<<
          <<"quartz_cron_expression", GetAttr(schedule, "quartz_cron_expression", PyNone)>>,
          <<"timezone_id", GetAttr(schedule, "timezone_id", Lit("UTC"))>>,
          <<"pause_status", GetAttr(schedule, "pause_status", Lit("UNPAUSED"))>> >>)
_convert_schedule(job_settings) ==
    IF ~HasAttr(job_settings, "schedule") \/ ~Truthy(job_settings.v["schedule"])
    THEN PyNone
    ELSE LET schedule == job_settings.v["schedule"]
         IN  PyDict(<<
               <<"quartz_cron_expression", schedule.v["quartz_cron_expression"]>>,
               <<"timezone_id", schedule.v["timezone_id"]>>,
               <<"pause_status", GetAttr(schedule, "pause_status", Lit("UNPAUSED"))>> >>)

JobClusterConfig(cluster) ==
    LET nc == cluster.v["new_cluster"]
    IN  PyDict(<<
          <<"job_cluster_key", cluster.v["job_cluster_key"]>>,
          <<"new_cluster", DropEmpty(PyDict(<<
              <<"spark_version", nc.v["spark_version"]>>,
              <<"node_type_id", nc.v["node_type_id"]>>,
              <<"num_workers", GetAttr(nc, "num_workers", PyInt(1))>>,
              <<"autoscale", GetAttr(nc, "autoscale", PyNone)>>,
              <<"spark_conf", GetAttr(nc, "spark_conf", EmptyDict)>>,
              <<"spark_env_vars", GetAttr(nc, "spark_env_vars", EmptyDict)>>,
              <<"custom_tags", GetAttr(nc, "custom_tags", EmptyDict)>>,
              <<"init_scripts", GetAttr(nc, "init_scripts", EmptyList)>>,
              <<"driver_node_type_id", GetAttr(nc, "driver_node_type_id", PyNone)>>,
              <<"ssh_public_keys", GetAttr(nc, "ssh_public_keys", EmptyList)>>,
              <<"cluster_log_conf", GetAttr(nc, "cluster_log_conf", PyNone)>>,
              <<"enable_elastic_disk", GetAttr(nc, "enable_elastic_disk", PyNone)>>,
              <<"disk_spec", GetAttr(nc, "disk_spec", PyNone)>>,
              <<"cluster_mount_infos", GetAttr(nc, "cluster_mount_infos", EmptyList)>>
            >>))>> >>)

_convert_job_clusters(job_settings) ==
    IF ~HasAttr(job_settings, "job_clusters") \/ ~Truthy(job_settings.v["job_clusters"])
    THEN PyNone
    ELSE PyList(MapSeq(job_settings.v["job_clusters"].v, JobClusterConfig))

_convert_cluster_config(cluster) ==
    DropEmpty(PyDict(<<
        <<"spark_version", cluster.v["spark_version"]>>,
        <<"node_type_id", cluster.v["node_type_id"]>>,
        <<"num_workers", GetAttr(cluster, "num_workers", PyInt(1))>>,
        <<"autoscale", GetAttr(cluster, "autoscale", PyNone)>>,
        <<"spark_conf", GetAttr(cluster, "spark_conf", EmptyDict)>>,
        <<"spark_env_vars", GetAttr(cluster, "spark_env_vars", EmptyDict)>>,
        <<"custom_tags", GetAttr(cluster, "custom_tags", EmptyDict)>> >>))

\* one library: the first kind present wins; a library of no kind gives {}
LibraryConfig(lib) ==
    IF Present(lib, "jar") THEN PyDict(<< <<"jar", lib.v["jar"]>> >>)
    ELSE IF Present(lib, "egg") THEN PyDict(<< <<"egg", lib.v["egg"]>> >>)
    ELSE IF Present(lib, "whl") THEN PyDict(<< <<"whl", lib.v["whl"]>> >>)
    ELSE IF Present(lib, "pypi") THEN
        PyDict(<< <<"pypi", DropNone(PyDict(<<
            <<"package", lib.v["pypi"].v["package"]>>,
            <<"repo", GetAttr(lib.v["pypi"], "repo", PyNone)>> >>))>> >>)
    ELSE IF Present(lib, "maven") THEN
        PyDict(<< <<"maven", DropEmpty(PyDict(<<
            <<"coordinates", lib.v["maven"].v["coordinates"]>>,
            <<"repo", GetAttr(lib.v["maven"], "repo", PyNone)>>,
            <<"exclusions", GetAttr(lib.v["maven"], "exclusions", EmptyList)>> >>))>> >>)
    ELSE IF Present(lib, "cran") THEN
        PyDict(<< <<"cran", DropNone(PyDict(<<
            <<"package", lib.v["cran"].v["package"]>>,
            <<"repo", GetAttr(lib.v["cran"], "repo", PyNone)>> >>))>> >>)
    ELSE EmptyDict

_convert_libraries(libraries) ==
    PyList(SelectSeq(MapSeq(libraries.v, LibraryConfig), LAMBDA c : Truthy(c)))

\* the entry _convert_tasks writes for a task of one type
PayloadEntry(task, kind) ==
    CASE kind = "notebook_task" ->
        <<kind, PyDict(<<
            <<"notebook_path", task.v[kind].v["notebook_path"]>>,
            <<"source", GetAttr(task.v[kind], "source", Lit("WORKSPACE"))>>,
            <<"base_parameters", GetAttr(task.v[kind], "base_parameters", EmptyDict)>> >>)>>
      [] kind = "python_wheel_task" ->
        <<kind, PyDict(<<
            <<"package_name", task.v[kind].v["package_name"]>>,
            <<"entry_point", task.v[kind].v["entry_point"]>>,
            <<"parameters", GetAttr(task.v[kind], "parameters", EmptyList)>>,
            <<"named_parameters", GetAttr(task.v[kind], "named_parameters", EmptyDict)>> >>)>>
      [] kind = "spark_jar_task" ->
        <<kind, PyDict(<<
            <<"main_class_name", task.v[kind].v["main_class_name"]>>,
            <<"parameters", GetAttr(task.v[kind], "parameters", EmptyList)>> >>)>>
      [] kind = "spark_python_task" ->
        <<kind, PyDict(<<
            <<"python_file", task.v[kind].v["python_file"]>>,
            <<"parameters", GetAttr(task.v[kind], "parameters", EmptyList)>>,
            <<"source", GetAttr(task.v[kind], "source", Lit("WORKSPACE"))>> >>)>>
      [] kind = "spark_submit_task" ->
        <<kind, PyDict(<< <<"parameters", task.v[kind].v["parameters"]>> >>)>>
      [] kind = "pipeline_task" ->
        <<kind, PyDict(<<
            <<"pipeline_id", task.v[kind].v["pipeline_id"]>>,
            <<"full_refresh", GetAttr(task.v[kind], "full_refresh", PyBool(FALSE))>> >>)>>
      [] kind = "sql_task" ->
        <<kind, PyDict(<<
            <<"query", GetAttr(task.v[kind], "query", PyNone)>>,
            <<"dashboard", GetAttr(task.v[kind], "dashboard", PyNone)>>,
            <<"alert", GetAttr(task.v[kind], "alert", PyNone)>>,
            <<"warehouse_id", task.v[kind].v["warehouse_id"]>>,
            <<"parameters", GetAttr(task.v[kind], "parameters", EmptyDict)>> >>)>>

\* a slip the chain below guards against: 'if' for every type instead of 'elif'
TaskPayloadEveryType(task) ==
    SelectSeq(
        << IF Present(task, "notebook_task") THEN PayloadEntry(task, "notebook_task") ELSE <<>>,
           IF Present(task, "python_wheel_task") THEN PayloadEntry(task, "python_wheel_task") ELSE <<>>,
           IF Present(task, "spark_jar_task") THEN PayloadEntry(task, "spark_jar_task") ELSE <<>>,
           IF Present(task, "spark_python_task") THEN PayloadEntry(task, "spark_python_task") ELSE <<>>,
           IF Present(task, "spark_submit_task") THEN PayloadEntry(task, "spark_submit_task") ELSE <<>>,
           IF Present(task, "pipeline_task") THEN PayloadEntry(task, "pipeline_task") ELSE <<>>,
           IF Present(task, "sql_task") THEN PayloadEntry(task, "sql_task") ELSE <<>> >>,
        LAMBDA e : Len(e) > 0)

\* the task-type branch of _convert_tasks: an if/elif chain, at most one entry
TaskPayload(task) ==
    IF Present(task, "notebook_task") THEN <<PayloadEntry(task, "notebook_task")>>
    ELSE IF Present(task, "python_wheel_task") THEN <<PayloadEntry(task, "python_wheel_task")>>
    ELSE IF Present(task, "spark_jar_task") THEN <<PayloadEntry(task, "spark_jar_task")>>
    ELSE IF Present(task, "spark_python_task") THEN <<PayloadEntry(task, "spark_python_task")>>
    ELSE IF Present(task, "spark_submit_task") THEN <<PayloadEntry(task, "spark_submit_task")>>
    ELSE IF Present(task, "pipeline_task") THEN <<PayloadEntry(task, "pipeline_task")>>
    ELSE IF Present(task, "sql_task") THEN <<PayloadEntry(task, "sql_task")>>
    ELSE <<>>

\* a slip: 'if' for every compute binding instead of 'elif'
TaskComputeEveryKind(task) ==
    (IF Present(task, "job_cluster_key")
     THEN << <<"job_cluster_key", task.v["job_cluster_key"]>> >> ELSE <<>>)
    \o (IF Present(task, "existing_cluster_id")
        THEN << <<"existing_cluster_id", task.v["existing_cluster_id"]>> >> ELSE <<>>)
    \o (IF Present(task, "new_cluster")
        THEN << <<"new_cluster", _convert_cluster_config(task.v["new_cluster"])>> >> ELSE <<>>)
\* the compute branch of _convert_tasks: an if/elif chain, at most one entry
TaskCompute(task) ==
    IF Present(task, "job_cluster_key") THEN
        << <<"job_cluster_key", task.v["job_cluster_key"]>> >>
    ELSE IF Present(task, "existing_cluster_id") THEN
        << <<"existing_cluster_id", task.v["existing_cluster_id"]>> >>
    ELSE IF Present(task, "new_cluster") THEN
        << <<"new_cluster", _convert_cluster_config(task.v["new_cluster"])>> >>
    ELSE <<>>

TaskLibraries(task) ==
    IF Present(task, "libraries")
    THEN << <<"libraries", _convert_libraries(task.v["libraries"])>> >>
    ELSE <<>>

TaskConfig(task) ==
    DropEmpty(PyDict(
        << <<"task_key", task.v["task_key"]>>,
           <<"description", GetAttr(task, "description", PyStr(<<>>))>>,
           <<"depends_on",
             PyList(MapSeq(GetAttr(task, "depends_on", EmptyList).v,
                           LAMBDA dep : PyDict(<< <<"task_key", dep.v["task_key"]>> >>)))>>,
           <<"timeout_seconds", GetAttr(task, "timeout_seconds", PyNone)>>,
           <<"max_retries", GetAttr(task, "max_retries", PyNone)>>,
           <<"min_retry_interval_millis", GetAttr(task, "min_retry_interval_millis", PyNone)>>,
           <<"retry_on_timeout", GetAttr(task, "retry_on_timeout", PyNone)>> >>
        \o TaskPayload(task) \o TaskCompute(task) \o TaskLibraries(task)))

_convert_tasks(job_settings) ==
    IF ~HasAttr(job_settings, "tasks") \/ ~Truthy(job_settings.v["tasks"])
    THEN PyNone
    ELSE PyList(MapSeq(job_settings.v["tasks"].v, TaskConfig))

\* the key under resources.jobs
JobKey(workflow) ==
    StrReplace(StrReplace(StrLower(
        DictGetOr(workflow, "name", PyStr(<<"unnamed_job">>)).v), " ", "_"), "-", "_")

JobResource(workflow, job_settings) ==
    DropNone(PyDict(<<
        <<"name", DictGetOr(workflow, "name", PyStr(<<"Unnamed Job">>))>>,
        <<"description", DictGetOr(workflow, "description", PyStr(<<>>))>>,
        <<"tags", GetAttr(job_settings, "tags", EmptyDict)>>,
        <<"timeout_seconds", GetAttr(job_settings, "timeout_seconds", PyNone)>>,
        <<"max_concurrent_runs", GetAttr(job_settings, "max_concurrent_runs", PyInt(1))>>,
        <<"email_notifications", _convert_email_notifications(job_settings)>>,
        <<"webhook_notifications", _convert_webhook_notifications(job_settings)>>,
        <<"schedule", _convert_schedule(job_settings)>>,
        <<"job_clusters", _convert_job_clusters(job_settings)>>,
        <<"tasks", _convert_tasks(job_settings)>> >>))

\* bundle['resources']['jobs'][job_name] = job_resource, or nothing when the
\* detail has no settings
_add_workflow_resources(bundle, workflow) ==
    LET job_settings == DictGetOr(workflow, "settings", PyNone)
    IN  IF ~Truthy(job_settings) THEN bundle
        ELSE DictSet(bundle, "resources",
                DictSet(DictGet(bundle, "resources"), "jobs",
                    SetKey(DictGet(DictGet(bundle, "resources"), "jobs"),
                           JobKey(workflow), JobResource(workflow, job_settings))))

\* a slip: the hook starting the jobs mapping afresh
AddDependenciesDropsJobs(bundle, workflow) ==
    DictSet(bundle, "resources", PyDict(<< <<"jobs", EmptyDict>> >>))
\* a slip: the hook adding a section of its own to the document
AddDependenciesSection(bundle, workflow) == DictSet(bundle, "dependencies", EmptyList)
\* a placeholder: logs and leaves the bundle as it is
_add_dependencies(bundle, workflow) == bundle

\* an exception leaving an operation, as the operation's value
Raised == [t |-> "raise", v |-> <<>>]
IsRaised(x) == x.t = "raise"

\* the targets added besides the requested one (only for 'dev')
AdditionalTargets(target_environment) ==
    IF target_environment = "dev"
    THEN << << <<"staging">>, PyDict(<<
                <<"mode", Lit("development")>>,
                <<"workspace", PyDict(<< <<"host", Lit("${var.staging_workspace_host}")>> >>)>>,
                <<"variables", PyDict(<< <<"staging_workspace_host", PyDict(<<
                    <<"description", Lit("Staging workspace host URL")>> >>)>> >>)>> >>) >>,
            << <<"prod">>, PyDict(<<
                <<"mode", Lit("production")>>,
                <<"workspace", PyDict(<< <<"host", Lit("${var.prod_workspace_host}")>> >>)>>,
                <<"variables", PyDict(<< <<"prod_workspace_host", PyDict(<<
                    <<"description", Lit("Production workspace host URL")>> >>)>> >>)>> >>) >> >>
    ELSE <<>>

\* current_user is db_client.current_user, workspace_info what
\* db_client.get_workspace_info() returns (None when it fails: .get on it raises)
_create_bundle_structure(workflow, bundle_name, target_environment, current_user, workspace_info) ==
    IF IsNone(workspace_info) THEN Raised
    ELSE PyDict(<<
        <<"bundle", PyDict(<<
            <<"name", bundle_name>>,
            <<"description", PyStr(<<"Asset bundle for workflow: ">>
                \o DictGetOr(workflow, "name", Lit("Unknown")).v)>>,
            <<"git", PyDict(<<
                <<"origin_url", Lit("${var.git_origin_url}")>>,
                <<"branch", Lit("${var.git_branch}")>> >>)>> >>)>>,
        <<"variables", PyDict(<<
            <<"git_origin_url", PyDict(<<
                <<"description", Lit("Git repository origin URL")>>,
                <<"default", Lit("https://github.com/your-org/your-repo.git")>> >>)>>,
            <<"git_branch", PyDict(<<
                <<"description", Lit("Git branch to use")>>,
                <<"default", Lit("main")>> >>)>> >>)>>,
        <<"targets", RawDict(
            << << <<target_environment>>, PyDict(<<
                <<"mode", IF target_environment = "dev"
                          THEN Lit("development") ELSE Lit("production")>>,
                <<"default", PyBool(target_environment = "dev")>>,
                <<"workspace", PyDict(<<
                    <<"host", Lit("${var.workspace_host}")>>,
                    <<"current_user", PyDict(<<
                        <<"user_name", IF Truthy(current_user) THEN current_user
                                       ELSE Lit("unknown_user")>> >>)>> >>)>>,
                <<"variables", PyDict(<<
                    <<"workspace_host", PyDict(<<
                        <<"description", Lit("Databricks workspace host URL")>>,
                        <<"default", DictGetOr(workspace_info, "workspace_url",
                                               PyStr(<<>>))>> >>)>> >>)>> >>) >> >>
            \o AdditionalTargets(target_environment))>>,
        <<"resources", PyDict(<< <<"jobs", EmptyDict>> >>)>> >>)

\* ------------------------------------------------------------- the text
RECURSIVE ConcatAll(_)
ConcatAll(ss) == IF Len(ss) = 0 THEN <<>> ELSE Head(ss) \o ConcatAll(Tail(ss))

DigitChars == <<"0","1","2","3","4","5","6","7","8","9">>
TwoDigits(n) == <<DigitChars[(n \div 10) + 1], DigitChars[(n % 10) + 1]>>
\* the wall clock is a count of seconds into one day
DayDigits == <<"2","0","2","4","0","1","1","5">>
HH(now) == TwoDigits((now \div 3600) % 24)
MM(now) == TwoDigits((now \div 60) % 60)
SS(now) == TwoDigits(now % 60)
\* datetime.now().isoformat()
IsoFormat(now) == <<"2024-01-15T">> \o HH(now) \o <<":">> \o MM(now) \o <<":">> \o SS(now)
\* datetime.now().strftime("%Y%m%d_%H%M%S")
Strftime(now) == DayDigits \o <<"_">> \o HH(now) \o MM(now) \o SS(now)

\* yaml.dump(..., default_flow_style=False, indent=2, sort_keys=False): block
\* style, two spaces a level, sequences not indented under their key
Indent(n) == [i \in 1..n |-> "  "]
KeyText(key) == IF Len(key) = 0 THEN <<"''">> ELSE key
YamlScalar(x) ==
    CASE x.t = "None" -> <<"null">>
      [] x.t = "str"  -> IF Len(x.v) = 0 THEN <<"''">> ELSE x.v
      [] x.t = "int"  -> <<ToString(x.v)>>
      [] x.t = "bool" -> IF x.v THEN <<"true">> ELSE <<"false">>
      [] OTHER        -> <<"?">>
\* the attributes of a dumped object, in the order they are dumped
AttrOrder == <<"min_workers", "max_workers">>
ObjAsDict(o) ==
    RawDict(MapSeq(SelectSeq(AttrOrder, LAMBDA a : a \in DOMAIN o.v),
                   LAMBDA a : << <<a>>, o.v[a] >>))

RECURSIVE YamlMapping(_, _, _)
RECURSIVE YamlSequence(_, _)
RECURSIVE YamlAfterKey(_, _)
YamlAfterKey(x, ind) ==
    CASE x.t = "dict" /\ Len(x.v) > 0 -> <<"\n">> \o YamlMapping(x, ind + 1, FALSE)
      [] x.t = "dict" /\ Len(x.v) = 0 -> <<" ", "{}", "\n">>
      [] x.t = "list" /\ Len(x.v) > 0 -> <<"\n">> \o YamlSequence(x, ind)
      [] x.t = "list" /\ Len(x.v) = 0 -> <<" ", "[]", "\n">>
      [] x.t = "obj" -> <<" ", "!!python/object", "\n">>
                        \o YamlMapping(ObjAsDict(x), ind + 1, FALSE)
      [] OTHER -> <<" ">> \o YamlScalar(x) \o <<"\n">>
YamlMapping(d, ind, inline) ==
    ConcatAll([i \in DOMAIN d.v |->
        (IF i = 1 /\ inline THEN <<>> ELSE Indent(ind))
        \o KeyText(d.v[i][1]) \o <<":">> \o YamlAfterKey(d.v[i][2], ind)])
YamlSequence(l, ind) ==
    ConcatAll([i \in DOMAIN l.v |->
        Indent(ind) \o <<"- ">> \o
        (CASE l.v[i].t = "dict" /\ Len(l.v[i].v) > 0 -> YamlMapping(l.v[i], ind + 1, TRUE)
           [] l.v[i].t = "dict" /\ Len(l.v[i].v) = 0 -> <<"{}", "\n">>
           [] l.v[i].t = "obj" -> <<"!!python/object", "\n">>
                                  \o YamlMapping(ObjAsDict(l.v[i]), ind + 1, FALSE)
           [] OTHER -> YamlScalar(l.v[i]) \o <<"\n">>)])
yaml_dump(doc) == IF Len(doc.v) = 0 THEN <<"{}", "\n">> ELSE YamlMapping(doc, 0, FALSE)

ErrorComment == PyStr(<<"#", " Error generating YAML: ", "<error>">>)

\* a slip: no empty line between the header and the body
BundleYamlNoBlankLine(bundle, now, yaml_ok) ==
    IF ~yaml_ok THEN ErrorComment
    ELSE PyStr(
        <<"#", " Databricks Asset Bundle Configuration", "\n",
          "#", " Generated on: ">> \o IsoFormat(now) \o <<"\n">> \o yaml_dump(bundle))
\* a slip: the header written before the encoding is tried, so that it stays
\* in front of the error comment
ResourcesYamlErrorAfterHeader(resources, workflow, now, yaml_ok) ==
    PyStr(
        <<"#", " Databricks Asset Bundle Resources", "\n",
          "#", " Generated on: ">> \o IsoFormat(now) \o <<"\n", "\n">>
        \o (IF yaml_ok THEN yaml_dump(resources) ELSE ErrorComment.v))

\* yaml_ok: whether yaml.dump encodes the document or raises
_convert_to_yaml(bundle, now, yaml_ok) ==
    IF ~yaml_ok THEN ErrorComment
    ELSE PyStr(
        <<"#", " Databricks Asset Bundle Configuration", "\n",
          "#", " Generated on: ">> \o IsoFormat(now) \o <<"\n",
          "#", " Bundle: ">>
        \o DictGetOr(DictGetOr(bundle, "bundle", EmptyDict), "name", Lit("Unknown")).v
        \o <<"\n", "#", " Description: ">>
        \o DictGetOr(DictGetOr(bundle, "bundle", EmptyDict), "description",
                     Lit("Auto-generated asset bundle")).v
        \o <<"\n", "\n">> \o yaml_dump(bundle))

_convert_resources_to_yaml(resources, workflow, now, yaml_ok) ==
    IF ~yaml_ok THEN ErrorComment
    ELSE PyStr(
        <<"#", " Databricks Asset Bundle Resources", "\n",
          "#", " Generated on: ">> \o IsoFormat(now) \o <<"\n",
          "#", " Workflow: ">> \o DictGetOr(workflow, "name", Lit("Unknown")).v
        \o <<"\n", "#", " Job ID: ">> \o YamlScalar(DictGetOr(workflow, "job_id", Lit("N/A")))
        \o <<"\n", "#", " Contains only the 'resources:' section for this workflow",
             "\n", "\n">> \o yaml_dump(resources))

\* ------------------------------------------------ databricks_client.py
RunInfo(run) ==
    PyDict(<<
        <<"run_id", run.v["run_id"]>>,
        <<"start_time", run.v["start_time"]>>,
        <<"end_time", run.v["end_time"]>>,
        <<"state", IF Truthy(run.v["state"]) THEN run.v["state"].v["life_cycle_state"]
                   ELSE Lit("Unknown")>>,
        <<"result_state", IF Truthy(run.v["state"]) THEN run.v["state"].v["result_state"]
                          ELSE Lit("Unknown")>> >>)

FirstN(s, n) == SubSeq(s, 1, IF Len(s) < n THEN Len(s) ELSE n)

\* env.authenticated: is_authenticated(); env.job: what client.jobs.get(job_id)
\* gives (Raised when the remote call fails); env.runs: what list_runs gives.
\* The decorator handle_databricks_error turns every exception into None.
get_workflow_details(env, job_id) ==
    IF ~env.authenticated THEN PyNone
    ELSE IF IsRaised(env.job) \/ IsRaised(env.runs) THEN PyNone
    ELSE LET job == env.job
         IN  PyDict(<<
               <<"job_id", job.v["job_id"]>>,
               <<"name", IF Truthy(job.v["settings"]) THEN job.v["settings"].v["name"]
                         ELSE PyStr(UnnamedJob)>>,
               <<"description", IF Truthy(job.v["settings"])
                                THEN GetAttr(job.v["settings"], "description", PyStr(<<>>))
                                ELSE PyStr(<<>>)>>,
               <<"created_time", job.v["created_time"]>>,
               <<"creator_user_name", job.v["creator_user_name"]>>,
               <<"settings", job.v["settings"]>>,
               <<"recent_runs", PyList(MapSeq(FirstN(env.runs.v, 5), RunInfo))>> >>)

\* ------------------------------------- bundle_generator.py, the two entries
\* the local variable 'resources' of generate_resources_only when it is
\* serialized (None when the call returns before building it)
ResourcesDocument(workflow, include_dependencies, env) ==
    LET detailed_workflow == get_workflow_details(env, DictGet(workflow, "job_id"))
        resources == _add_workflow_resources(
                        PyDict(<< <<"resources", PyDict(<< <<"jobs", EmptyDict>> >>)>> >>),
                        detailed_workflow)
    IN  IF ~Truthy(detailed_workflow) THEN PyNone
        ELSE IF include_dependencies THEN _add_dependencies(resources, detailed_workflow)
        ELSE resources

\* a slip: the document serialized whether or not the detail fetch gave a detail
ResourcesOnlyUnfetched(workflow, include_dependencies, env) ==
    _convert_resources_to_yaml(
        PyDict(<< <<"resources", PyDict(<< <<"jobs", EmptyDict>> >>)>> >>),
        workflow, env.now, env.yaml_ok)
generate_resources_only(workflow, include_dependencies, env) ==
    LET resources == ResourcesDocument(workflow, include_dependencies, env)
    IN  IF IsNone(resources) THEN PyNone
        ELSE _convert_resources_to_yaml(resources, workflow, env.now, env.yaml_ok)

\* the local variable 'bundle' of generate_bundle when it is serialized (None
\* when the call returns before building it, Raised when building it raises)
BundleDocument(workflow, bundle_name, include_dependencies, target_environment, env) ==
    LET detailed_workflow == get_workflow_details(env, DictGet(workflow, "job_id"))
        structure == _create_bundle_structure(detailed_workflow, bundle_name,
                        target_environment, env.current_user, env.workspace_info)
    IN  IF ~Truthy(detailed_workflow) THEN PyNone
        ELSE IF IsRaised(structure) THEN Raised
        ELSE IF include_dependencies
        THEN _add_dependencies(_add_workflow_resources(structure, detailed_workflow),
                               detailed_workflow)
        ELSE _add_workflow_resources(structure, detailed_workflow)

\* a slip: no 'except' around the body
GenerateBundleUncaught(workflow, bundle_name, include_dependencies, target_environment, env) ==
    LET bundle == BundleDocument(workflow, bundle_name, include_dependencies,
                                 target_environment, env)
    IN  IF IsNone(bundle) \/ IsRaised(bundle) THEN bundle
        ELSE _convert_to_yaml(bundle, env.now, env.yaml_ok)
generate_bundle(workflow, bundle_name, include_dependencies, target_environment, env) ==
    LET bundle == BundleDocument(workflow, bundle_name, include_dependencies,
                                 target_environment, env)
    IN  IF IsNone(bundle) \/ IsRaised(bundle) THEN PyNone
        ELSE _convert_to_yaml(bundle, env.now, env.yaml_ok)

\* ------------------------------------------------- the remote workspace
\* SDK objects are built from shapes: for each optional attribute whether
\* the object lacks it ("missing"), has it as None ("none"), or has a value.
MkObj(pairs) ==
    PyObj([a \in {pairs[i][1] : i \in DOMAIN pairs} |->
              pairs[CHOOSE i \in DOMAIN pairs : pairs[i][1] = a][2]])
Attr(case, name, value) ==
    IF case = "missing" THEN <<>>
    ELSE IF case = "none" THEN << <<name, PyNone>> >>
    ELSE << <<name, value>> >>

Address == PyStr(<<"ops@example.com">>)
TagsValue(case) ==
    IF case = "empty" THEN EmptyDict
    ELSE PyDict(<< <<"team", Lit("data")>> >>)
EmailValue(case) ==
    IF case = "bare" THEN MkObj(<<>>)
    ELSE MkObj(<< <<"on_failure", PyList(<<Address>>)>>,
                  <<"no_alert_for_skipped_runs", PyBool(TRUE)>> >>)
WebhookValue(case) ==
    IF case = "bare" THEN MkObj(<<>>)
    ELSE MkObj(<< <<"on_start", PyList(<<MkObj(<< <<"id", Lit("wh-1")>> >>)>>)>> >>)
ScheduleValue(case) ==
    MkObj(<< <<"quartz_cron_expression", Lit("0 0 2 * * ?")>>,
             <<"timezone_id", Lit("UTC")>> >>
          \o (IF case = "paused" THEN << <<"pause_status", Lit("PAUSED")>> >> ELSE <<>>))
ClusterSpec(case) ==
    MkObj(<< <<"spark_version", Lit("13.3.x-scala2.12")>>,
             <<"node_type_id", Lit("i3.xlarge")>> >>
          \o (IF case = "fixed" THEN << <<"num_workers", PyInt(2)>> >>
              ELSE IF case \in {"none_workers", "autoscale_none_workers"}
              THEN << <<"num_workers", PyNone>> >> ELSE <<>>)
          \o (IF case = "autoscale_none_workers"
              THEN << <<"autoscale", MkObj(<< <<"min_workers", PyInt(1)>>,
                                              <<"max_workers", PyInt(4)>> >>)>> >>
              ELSE <<>>)
          \o (IF case = "autoscale"
              THEN << <<"autoscale", MkObj(<< <<"min_workers", PyInt(1)>>,
                                              <<"max_workers", PyInt(4)>> >>)>>,
                      <<"spark_conf", EmptyDict>>,
                      <<"init_scripts", EmptyList>> >>
              ELSE <<>>))
ClustersValue(case) ==
    IF case = "empty" THEN EmptyList
    ELSE PyList(<< MkObj(<< <<"job_cluster_key", Lit("main")>>,
                            <<"new_cluster", ClusterSpec(case)>> >>) >>)

PayloadKinds ==
    <<"notebook_task", "python_wheel_task", "spark_jar_task", "spark_python_task",
      "spark_submit_task", "pipeline_task", "sql_task">>
ComputeKinds == <<"job_cluster_key", "existing_cluster_id", "new_cluster">>
PayloadValue(kind) ==
    CASE kind = "notebook_task" -> MkObj(<< <<"notebook_path", Lit("/x")>> >>)
      [] kind = "python_wheel_task" ->
            MkObj(<< <<"package_name", Lit("pkg")>>, <<"entry_point", Lit("main")>> >>)
      [] kind = "spark_jar_task" -> MkObj(<< <<"main_class_name", Lit("com.x.Main")>> >>)
      [] kind = "spark_python_task" -> MkObj(<< <<"python_file", Lit("/x.py")>> >>)
      [] kind = "spark_submit_task" ->
            MkObj(<< <<"parameters", PyList(<<Lit("--class")>>)>> >>)
      [] kind = "pipeline_task" -> MkObj(<< <<"pipeline_id", Lit("p-1")>> >>)
      [] OTHER -> MkObj(<< <<"warehouse_id", Lit("w-1")>> >>)
ComputeValue(kind, cluster) ==
    CASE kind = "job_cluster_key" -> Lit("main")
      [] kind = "existing_cluster_id" -> Lit("0101-abc")
      [] OTHER -> ClusterSpec(cluster)
\* a task: the kinds in 'payloads' and 'compute' are set, the kinds in
\* 'nulls' are there as None, the others are not attributes of the task
TaskObject(shape) ==
    MkObj(<< <<"task_key", Lit(shape.key)>> >>
          \o ConcatAll(MapSeq(PayloadKinds, LAMBDA k :
                IF k \in shape.payloads THEN << <<k, PayloadValue(k)>> >>
                ELSE IF k \in shape.nulls THEN << <<k, PyNone>> >> ELSE <<>>))
          \o ConcatAll(MapSeq(ComputeKinds, LAMBDA k :
                IF k \in shape.compute THEN << <<k, ComputeValue(k, shape.cluster)>> >>
                ELSE IF k \in shape.nulls THEN << <<k, PyNone>> >> ELSE <<>>))
          \o (IF shape.extras = "full"
              THEN << <<"description", Lit("a step")>>,
                      <<"depends_on", PyList(<<MkObj(<< <<"task_key", Lit("t0")>> >>)>>)>>,
                      <<"timeout_seconds", PyInt(60)>>,
                      <<"libraries", PyList(<<MkObj(<< <<"whl", Lit("/a.whl")>> >>),
                                              MkObj(<<>>)>>)>> >>
              ELSE <<>>))
TasksValue(tasks) == PyList(MapSeq(tasks, TaskObject))

\* job.settings built from a name and a shape
SettingsObject(name, shape) ==
    MkObj(<< <<"name", PyStr(name)>> >>
          \o Attr(shape.description, "description", Lit("nightly load"))
          \o Attr(shape.tags, "tags", TagsValue(shape.tags))
          \o Attr(shape.timeout, "timeout_seconds", PyInt(3600))
          \o Attr(shape.max_concurrent_runs, "max_concurrent_runs", PyInt(3))
          \o Attr(shape.email, "email_notifications", EmailValue(shape.email))
          \o Attr(shape.webhook, "webhook_notifications", WebhookValue(shape.webhook))
          \o Attr(shape.schedule, "schedule", ScheduleValue(shape.schedule))
          \o Attr(shape.clusters, "job_clusters", ClustersValue(shape.clusters))
          \o Attr(shape.tasksAttr, "tasks", TasksValue(shape.tasks)))

\* what client.jobs.get returns for a job of the workspace
JobObject(job) ==
    MkObj(<< <<"job_id", PyInt(job.job_id)>>,
             <<"created_time", PyInt(1700000000)>>,
             <<"creator_user_name", Lit("owner@example.com")>>,
             <<"settings", IF job.has_settings THEN SettingsObject(job.name, job.shape)
                           ELSE PyNone>> >>)

\* task info of a summary, as list_workflows extracts it
TaskInfo(task) ==
    PyDict(<< <<"task_key", task.v["task_key"]>>,
              <<"description", GetAttr(task, "description", PyStr(<<>>))>>,
              <<"depends_on", PyList(MapSeq(GetAttr(task, "depends_on", EmptyList).v,
                                            LAMBDA dep : dep.v["task_key"]))>>,
              <<"timeout_seconds", GetAttr(task, "timeout_seconds", PyNone)>>,
              <<"type", IF Present(task, "notebook_task") THEN Lit("notebook")
                        ELSE IF Present(task, "spark_jar_task") THEN Lit("jar")
                        ELSE IF Present(task, "python_wheel_task") THEN Lit("python_wheel")
                        ELSE IF Present(task, "spark_submit_task") THEN Lit("spark_submit")
                        ELSE IF Present(task, "pipeline_task") THEN Lit("pipeline")
                        ELSE Lit("unknown")>> >>)
_extract_task_info(job_settings) ==
    IF Present(job_settings, "tasks")
    THEN PyList(MapSeq(job_settings.v["tasks"].v, TaskInfo))
    ELSE EmptyList

\* one entry of the list list_workflows builds
WorkflowInfo(job) ==
    LET settings == job.v["settings"]
        has == Truthy(settings)
    IN  PyDict(<<
          <<"job_id", job.v["job_id"]>>,
          <<"name", IF has THEN settings.v["name"] ELSE PyStr(UnnamedJob)>>,
          <<"description", IF has THEN GetAttr(settings, "description", PyStr(<<>>))
                           ELSE PyStr(<<>>)>>,
          <<"created_time", job.v["created_time"]>>,
          <<"modified_time", GetAttr(job, "modified_time", job.v["created_time"])>>,
          <<"creator_user_name", job.v["creator_user_name"]>>,
          <<"status", Lit("Active")>>,
          <<"job_type", IF has THEN GetAttr(settings, "job_type", Lit("Unknown"))
                        ELSE Lit("Unknown")>>,
          <<"timeout_seconds", IF has THEN GetAttr(settings, "timeout_seconds", PyNone)
                               ELSE PyNone>>,
          <<"max_concurrent_runs", IF has THEN GetAttr(settings, "max_concurrent_runs", PyInt(1))
                                   ELSE PyInt(1)>>,
          <<"tags", IF has THEN GetAttr(settings, "tags", EmptyDict) ELSE EmptyDict>>,
          <<"tasks", IF has THEN _extract_task_info(settings) ELSE EmptyList>> >>)

\* ------------------------------------------------------ bounded inputs
NameChars == {"M", "y", " ", "-", "_", "."}
Names == StringsUpTo(NameChars, MaxNameLen)
           \cup { <<"M","y"," ","E","T","L","-","J","o","b">>,
                  <<"N","i","g","h","t","l","y"," ","S","y","n","c">> }

PlainTask == [key |-> "t1", payloads |-> {"notebook_task"}, compute |-> {},
              nulls |-> {}, extras |-> "bare", cluster |-> "fixed"]
\* how a cluster spec says its size: a worker count, an autoscale policy,
\* neither, with the unset worker count missing or None
ClusterCases == {"fixed", "unsized", "autoscale", "none_workers", "autoscale_none_workers"}
PlainShape ==
    [description |-> "missing", tags |-> "missing", timeout |-> "missing",
     max_concurrent_runs |-> "missing", email |-> "missing", webhook |-> "missing",
     schedule |-> "missing", clusters |-> "missing", tasksAttr |-> "set",
     tasks |-> <<PlainTask>>]
Kinds(seq) == {seq[i] : i \in DOMAIN seq}
\* job-level attributes in every combination, over one plain task
JobShapes ==
    {[PlainShape EXCEPT !.tags = tg, !.timeout = to, !.email = em, !.webhook = wh,
                        !.schedule = sc, !.clusters = cl] :
        tg \in {"missing", "none", "empty", "set"}, to \in {"missing", "set"},
        em \in {"missing", "none", "set"}, wh \in {"missing", "set"},
        sc \in {"missing", "none", "set"}, cl \in {"missing", "empty", "fixed", "autoscale"}}
    \cup {[PlainShape EXCEPT !.description = d, !.max_concurrent_runs = m, !.timeout = to,
                             !.email = em, !.webhook = wh, !.schedule = sc] :
        d \in {"missing", "set"}, m \in {"missing", "set"}, to \in {"none", "set"},
        em \in {"bare", "set"}, wh \in {"none", "bare"}, sc \in {"set", "paused"}}
    \cup {[PlainShape EXCEPT !.clusters = cl] : cl \in ClusterCases}
\* tasks: every set of payloads, every set of compute bindings
TaskShapes ==
    {[PlainTask EXCEPT !.payloads = p] : p \in SUBSET Kinds(PayloadKinds)}
    \cup {[PlainTask EXCEPT !.compute = c, !.extras = e] :
            c \in SUBSET Kinds(ComputeKinds), e \in {"bare", "full"}}
    \cup {[PlainTask EXCEPT !.payloads = {p}, !.nulls = Kinds(PayloadKinds) \ {p}] :
            p \in Kinds(PayloadKinds)}
    \cup {[PlainTask EXCEPT !.compute = {"new_cluster"}, !.cluster = cl] : cl \in ClusterCases}
    \cup {[PlainTask EXCEPT !.compute = {c}, !.nulls = Kinds(ComputeKinds) \ {c}] :
            c \in Kinds(ComputeKinds)}
TaskListShapes ==
    {[PlainShape EXCEPT !.tasks = <<t>>] : t \in TaskShapes}
    \cup {[PlainShape EXCEPT !.tasksAttr = a, !.tasks = <<>>] : a \in {"missing", "none", "set"}}
    \cup {[PlainShape EXCEPT !.tasks =
              <<PlainTask, [PlainTask EXCEPT !.key = "t2", !.payloads = {"sql_task", "pipeline_task"}]>>]}

\* the jobs a translation is tried on
TranslateJobs ==
    {[job_id |-> 42, name |-> n, has_settings |-> TRUE, shape |-> PlainShape] : n \in Names}
    \cup {[job_id |-> 42, name |-> <<"E","T","L">>, has_settings |-> TRUE, shape |-> sh] :
            sh \in JobShapes \cup TaskListShapes}
    \cup {[job_id |-> 42, name |-> <<>>, has_settings |-> FALSE, shape |-> PlainShape]}

\* ------------------------------------------------ app.py, saving a file
\* str.rsplit('.', 1): the text before and after the last dot
HasDot(s) == \E i \in DOMAIN s : s[i] = "."
LastDot(s) == CHOOSE i \in DOMAIN s : s[i] = "." /\ \A j \in (i + 1)..Len(s) : s[j] /= "."
BeforeLastDot(s) == IF HasDot(s) THEN SubSeq(s, 1, LastDot(s) - 1) ELSE s
AfterLastDot(s) == IF HasDot(s) THEN SubSeq(s, LastDot(s) + 1, Len(s)) ELSE <<>>

\* a slip: the timestamp appended after the extension
UniquePathSuffixLast(initial_path, base_filename, folder_path, status, now) ==
    IF IsRaised(status) THEN initial_path
    ELSE folder_path \o <<"/">> \o base_filename \o <<"_">> \o Strftime(now)
\* a slip: the unique name built whatever the status call did
UniquePathAlways(initial_path, base_filename, folder_path, status, now) ==
    folder_path \o <<"/">> \o BeforeLastDot(base_filename) \o <<"_">>
    \o Strftime(now) \o <<".">> \o AfterLastDot(base_filename)

\* status: what client.workspace.get_status(initial_path) does, an object
\* when the path is there, Raised when it is not or the call fails
_get_unique_workspace_path(initial_path, base_filename, folder_path, status, now) ==
    IF IsRaised(status) THEN initial_path
    ELSE folder_path \o <<"/">> \o BeforeLastDot(base_filename) \o <<"_">>
         \o Strftime(now) \o <<".">> \o AfterLastDot(base_filename)

FolderPath(current_user) ==
    <<"/Workspace/Users/">> \o current_user.v \o <<"/dabops-agent-asset">>
BaseFilename(bundle_name) == bundle_name.v \o <<".", "yml">>
WorkspacePath(bundle_name, current_user) ==
    FolderPath(current_user) \o <<"/">> \o BaseFilename(bundle_name)

\* client.workspace.get_status(path) against the files of the workspace
GetStatus(env, path) ==
    IF env.status_fails \/ path \notin env.files THEN Raised
    ELSE MkObj(<< <<"path", PyStr(path)>> >>)

\* the path save_bundle_to_workspace uploads to
FinalPath(bundle_name, env) ==
    _get_unique_workspace_path(
        WorkspacePath(bundle_name, env.current_user), BaseFilename(bundle_name),
        FolderPath(env.current_user),
        GetStatus(env, WorkspacePath(bundle_name, env.current_user)), env.now)

\* DatabricksClient.save_file_to_workspace: True when the upload went
\* through, False when it raised, None (from the decorator) when the client
\* is not authenticated
save_file_to_workspace(content, path, env) ==
    IF ~env.authenticated THEN PyNone
    ELSE IF env.upload_fails THEN PyBool(FALSE)
    ELSE PyBool(TRUE)

save_bundle_to_workspace(bundle_content, bundle_name, env) ==
    save_file_to_workspace(bundle_content, FinalPath(bundle_name, env), env)

\* the files of the workspace after save_bundle_to_workspace
FilesAfterSave(bundle_content, bundle_name, env) ==
    IF IsTrue(save_bundle_to_workspace(bundle_content, bundle_name, env))
    THEN env.files \cup {FinalPath(bundle_name, env)}
    ELSE env.files

\* ---------------------------------------------------------------- state
VARIABLES
    job,    \* the job of the remote workspace a single call is made on
    call,   \* the call last made: operation, arguments, what the remote did
    doc,    \* the document the call built before serializing it
    out,    \* what the call returned
    files,  \* the paths of the files of the remote workspace
    now,    \* the wall clock, in seconds
    faults, \* how many remote or encoding failures have happened in calls and batches
    generated_bundles,      \* st.session_state.generated_bundles
    generation_history,     \* st.session_state.generation_history
    last_generation_time,   \* st.session_state.last_generation_time
    bpc,    \* where generate_bundles is: idle, loop, save, store, done
    args,   \* the arguments of generate_bundles
    idx,    \* the index of the workflow, then of the bundle to save
    new_bundles,        \* generate_bundles' local generated_bundles
    failed_bundles,     \* generate_bundles' local failed_bundles
    generation_time,    \* generate_bundles' local generation_time
    fetched,            \* per workflow of the batch: did its detail fetch give a detail
    uploads,            \* per call of save_bundle_to_workspace of the batch: the bundle,
                        \* the path uploaded to, whether a file was there, the outcome
    entry               \* the session state generate_bundles was called in
callVars == <<job, call, doc, out>>
remoteVars == <<files, now, faults>>
sessionVars == <<generated_bundles, generation_history, last_generation_time>>
batchVars == <<bpc, args, idx, new_bundles, failed_bundles, generation_time, fetched,
              uploads, entry>>
vars == <<callVars, remoteVars, sessionVars, batchVars>>

\* what the collaborators do during one call: all is well, or one thing fails.
\* A DatabricksClient exists only when its initialization succeeded, so
\* is_authenticated() holds for every client a call is made through.
Failures == {"ok", "get_fails", "runs_fail", "yaml_fails", "workspace_info_fails"}
Env(j, failure, t, fs) ==
    [authenticated |-> TRUE,
     job |-> IF failure = "get_fails" THEN Raised ELSE JobObject(j),
     runs |-> IF failure = "runs_fail" THEN Raised ELSE EmptyList,
     jobs |-> IF failure = "list_fails" THEN Raised ELSE PyList(<<JobObject(j)>>),
     objects |-> IF failure = "files_fail" THEN Raised ELSE [t |-> "paths", v |-> fs],
     yaml_ok |-> failure /= "yaml_fails",
     current_user |-> Lit("me@example.com"),
     workspace_info |-> IF failure = "workspace_info_fails" THEN PyNone
                        ELSE PyDict(<< <<"workspace_url", Lit("https://adb.example")>>,
                                       <<"current_user", Lit("me@example.com")>>,
                                       <<"auth_type", Lit("pat")>> >>),
     status_fails |-> failure = "status_fails",
     upload_fails |-> failure = "upload_fails",
     files |-> fs,
     now |-> t]
Targets == {"dev", "staging", "prod"}
NoCall == [op |-> "none", include_dependencies |-> FALSE, target |-> "dev",
           failure |-> "ok"]
NoArgs == [workflows |-> <<>>, bundle_name_prefix |-> PyStr(<<>>),
           include_dependencies |-> FALSE, auto_save |-> FALSE,
           clear_previous |-> FALSE, download_all |-> FALSE]
NoJob == [job_id |-> 0, name |-> <<>>, has_settings |-> FALSE, shape |-> PlainShape]

NoSession ==
    /\ generated_bundles = <<>>
    /\ generation_history = <<>>
    /\ last_generation_time = PyNone
NoBatch ==
    /\ bpc = "idle"
    /\ args = NoArgs
    /\ idx = 0
    /\ new_bundles = <<>>
    /\ failed_bundles = <<>>
    /\ generation_time = PyNone
    /\ fetched = <<>>
    /\ uploads = <<>>
    /\ entry = <<>>

\* ----------------------------------------- one call of the translator
InitTranslate ==
    /\ job \in TranslateJobs
    /\ call = NoCall
    /\ doc = PyNone
    /\ out = PyNone
    /\ files = {}
    /\ now = 0
    /\ faults = 0
    /\ NoSession
    /\ NoBatch

\* BundleGenerator.generate_resources_only on the job's summary
GenerateResourcesOnly ==
    /\ call.op = "none"
    /\ \E include_dependencies \in BOOLEAN,
          failure \in Failures \ {"workspace_info_fails"} :
        LET env == Env(job, failure, now, files)
            workflow == WorkflowInfo(JobObject(job))
        IN  /\ call' = [op |-> "generate_resources_only",
                        include_dependencies |-> include_dependencies,
                        target |-> "dev", failure |-> failure]
            /\ doc' = ResourcesDocument(workflow, include_dependencies, env)
            /\ out' = generate_resources_only(workflow, include_dependencies, env)
    /\ UNCHANGED <<job, remoteVars, sessionVars, batchVars>>

\* BundleGenerator.generate_bundle on the job's summary
GenerateBundle ==
    /\ call.op = "none"
    /\ \E include_dependencies \in BOOLEAN, target \in Targets, failure \in Failures :
        LET env == Env(job, failure, now, files)
            workflow == WorkflowInfo(JobObject(job))
        IN  /\ call' = [op |-> "generate_bundle",
                        include_dependencies |-> include_dependencies,
                        target |-> target, failure |-> failure]
            /\ doc' = BundleDocument(workflow, Lit("my_bundle"), include_dependencies,
                                     target, env)
            /\ out' = generate_bundle(workflow, Lit("my_bundle"), include_dependencies,
                                      target, env)
    /\ UNCHANGED <<job, remoteVars, sessionVars, batchVars>>

NextTranslate == GenerateResourcesOnly \/ GenerateBundle
SpecTranslate == InitTranslate /\ [][NextTranslate]_vars

\* ------------------------------------------------- reading a result back
IsText(x) == x.t = "str"
\* the positions of a text at which a line starts
LineStarts(s) == {1} \cup {i + 1 : i \in {j \in 1..(Len(s) - 1) : s[j] = "\n"}}
\* the first empty line of a text, 0 when it has none
BlankLine(s) ==
    IF \E p \in LineStarts(s) : s[p] = "\n"
    THEN CHOOSE p \in LineStarts(s) :
            s[p] = "\n" /\ \A q \in LineStarts(s) : s[q] = "\n" => p <= q
    ELSE 0
FirstAt(s, p, piece) ==
    CHOOSE i \in p..Len(s) : s[i] = piece /\ \A j \in p..(i - 1) : s[j] /= piece
\* the keys at the left margin of the body of a text
TopLevelKeys(text) ==
    LET s == text.v
        b == BlankLine(s)
    IN  IF b = 0 THEN {}
        ELSE {SubSeq(s, p, FirstAt(s, p, ":") - 1) :
                p \in {q \in LineStarts(s) : q > b /\ s[q] \notin {"  ", "- ", "\n"}}}

Made(op) == call.op = op
MadeAny == call.op \in {"generate_resources_only", "generate_bundle"}
\* the detail fetch of the call gave a detail
Fetched == call.failure \notin {"get_fails", "runs_fail"}
HasDoc == doc.t = "dict"
JobsOf(d) == DictGet(DictGet(d, "resources"), "jobs")
\* the job resources of the document, in order
JobResources(d) == [i \in DOMAIN JobsOf(d).v |-> JobsOf(d).v[i][2]]
SourceSettings == JobObject(job).v["settings"]
Lacks(o, a) == ~HasAttr(o, a) \/ IsNone(o.v[a])

\* C2: when the fetched detail carries no settings, generate_resources_only
\* and generate_bundle return the failure sentinel (None), not a text.
C2_NoSettingsFails ==
    (MadeAny /\ call.failure = "ok" /\ ~job.has_settings) => IsNone(out)

ExpectedJobKey(name) ==
    IF Len(name) = 0 THEN <<"unnamed_job">>
    ELSE [i \in DOMAIN name |->
            IF name[i] \in {" ", "-"} THEN "_" ELSE LowerChar(name[i])]
\* C4: the job key is the lowercased name with spaces and hyphens replaced by
\* underscores, and "unnamed_job" for an empty name; it is never empty.
C4_JobKey ==
    (MadeAny /\ HasDoc /\ job.has_settings) =>
        /\ KeySet(JobsOf(doc)) = {ExpectedJobKey(job.name)}
        /\ \A k \in KeySet(JobsOf(doc)) : Len(k) > 0
        /\ (job.name = <<"M","y"," ","E","T","L","-","J","o","b">>
              => KeySet(JobsOf(doc)) = {<<"m","y","_","e","t","l","_","j","o","b">>})

\* C5: no field of a produced JobResource is None, an empty list or an empty
\* mapping.
C5_NoEmptyField ==
    (MadeAny /\ HasDoc) =>
        \A i \in DOMAIN JobResources(doc) :
            \A f \in DOMAIN JobResources(doc)[i].v :
                LET x == JobResources(doc)[i].v[f][2]
                IN  ~IsNone(x) /\ ~IsEmptyList(x) /\ ~IsEmptyDict(x)

NotificationKeys == {"schedule", "job_clusters", "email_notifications", "webhook_notifications"}
LacksAll ==
    /\ job.has_settings
    /\ \A a \in NotificationKeys : Lacks(SourceSettings, a)
\* C6: settings without schedule, job clusters, email and webhook
\* notifications give a JobResource with none of those four keys.
C6_OmitsAbsent ==
    (MadeAny /\ HasDoc /\ LacksAll) =>
        /\ Len(JobResources(doc)) = 1
        /\ DictKeys(JobResources(doc)[1]) \cap NotificationKeys = {}
C6_Witness ==
    /\ Made("generate_resources_only") /\ IsText(out) /\ HasDoc /\ LacksAll
    /\ job.shape.tags = "set" /\ Len(JobResources(doc)) = 1

PresentKinds(task) == {k \in Kinds(PayloadKinds) : Present(task, k)}
FirstKind(ks) ==
    PayloadKinds[CHOOSE i \in DOMAIN PayloadKinds :
        PayloadKinds[i] \in ks /\ \A j \in 1..(i - 1) : PayloadKinds[j] \notin ks]
SourceTasks == SourceSettings.v["tasks"].v
\* C7: a translated task has at most one payload key, the first one present
\* in the order notebook, python wheel, spark jar, spark python, spark
\* submit, pipeline, sql.
C7_OnePayload ==
    (MadeAny /\ HasDoc /\ job.has_settings) =>
        \A r \in DOMAIN JobResources(doc) :
            DictHas(JobResources(doc)[r], "tasks") =>
                LET tasks == DictGet(JobResources(doc)[r], "tasks").v
                IN  /\ Len(tasks) = Len(SourceTasks)
                    /\ \A i \in DOMAIN tasks :
                        LET emitted == DictKeys(tasks[i]) \cap Kinds(PayloadKinds)
                            present == PresentKinds(SourceTasks[i])
                        IN  /\ Cardinality(emitted) <= 1
                            /\ emitted = IF present = {} THEN {} ELSE {FirstKind(present)}
C7_Witness ==
    /\ Made("generate_resources_only") /\ HasDoc /\ job.has_settings
    /\ job.shape.tasksAttr = "set" /\ Len(job.shape.tasks) = 1
    /\ job.shape.tasks[1].payloads = {"notebook_task", "python_wheel_task"}
    /\ DictKeys(DictGet(JobResources(doc)[1], "tasks").v[1]) \cap Kinds(PayloadKinds)
         = {"notebook_task"}

\* C8: a full-mode document has exactly the top-level keys bundle, variables,
\* targets, resources and a resources-only document exactly resources, in
\* the document and in its serialization, whatever include_dependencies is.
ModeKeys == IF Made("generate_bundle") THEN {"bundle", "variables", "targets", "resources"}
            ELSE {"resources"}
C8_ModeShape ==
    (MadeAny /\ HasDoc) =>
        /\ DictKeys(doc) = ModeKeys
        /\ (call.failure = "ok" =>
                IsText(out) /\ TopLevelKeys(out) = {<<k>> : k \in ModeKeys})
C8_Witness ==
    /\ Made("generate_bundle") /\ call.include_dependencies /\ call.target = "prod"
    /\ call.failure = "ok" /\ IsText(out) /\ job.has_settings
    /\ TopLevelKeys(out) = {<<"bundle">>, <<"variables">>, <<"targets">>, <<"resources">>}

\* C11: serialization never raises to its caller; when the encoding fails the
\* text returned is one single comment line starting with '#', with no
\* header and no body.
C11_ErrorCommentOnly ==
    (MadeAny /\ HasDoc) =>
        /\ IsText(out)
        /\ (call.failure = "yaml_fails" =>
                /\ Head(out.v) = "#"
                /\ \A i \in DOMAIN out.v : out.v[i] /= "\n"
                /\ \A i \in DOMAIN out.v : i > 1 => out.v[i] /= "#")
C11_Witness ==
    /\ Made("generate_resources_only") /\ HasDoc /\ call.failure = "yaml_fails"
    /\ job.has_settings /\ IsText(out) /\ Head(out.v) = "#"
    /\ LineStarts(out.v) = {1}

\* a text made of a block of '#' lines, one empty line, then a body that
\* starts with a line that is neither empty nor a comment
HeaderThenBody(s) ==
    LET b == BlankLine(s)
    IN  /\ b > 1 /\ b < Len(s)
        /\ \A p \in LineStarts(s) : p < b => s[p] = "#"
        /\ s[b + 1] \notin {"\n", "#"}
\* C12 as stated: every text the emitter returns, in both modes, is a block
\* of '#' lines, exactly one blank line, then the body.
C12_EveryTextHasHeader ==
    (MadeAny /\ IsText(out)) => HeaderThenBody(out.v)
\* C12 amended: every text the emitter returns when the encoding succeeds, in
\* both modes, is a block of '#' lines, exactly one blank line, then the body;
\* when the encoding fails the text has no blank line and no body.
C12_EncodedTextHasHeader ==
    (MadeAny /\ IsText(out)) =>
        IF call.failure = "yaml_fails" THEN BlankLine(out.v) = 0
        ELSE HeaderThenBody(out.v)
C12_Witness ==
    /\ Made("generate_bundle") /\ call.failure = "ok" /\ IsText(out)
    /\ job.has_settings /\ HeaderThenBody(out.v)
    /\ Cardinality({p \in LineStarts(out.v) : p < BlankLine(out.v)}) = 4

\* the job made of a task list with one notebook task that has only a path
NotebookOnlyJob == job.has_settings /\ job.shape = PlainShape
\* C13: for such a job translated in resources-only mode, the job resource
\* has the single key tasks, whose value is
\* [{task_key: t1, notebook_task: {notebook_path: /x, source: WORKSPACE}}],
\* and "Nightly Sync" gives the job key nightly_sync.
C13_NotebookOnlyScenario ==
    (Made("generate_resources_only") /\ HasDoc /\ NotebookOnlyJob) =>
        /\ Len(JobResources(doc)) = 1
        /\ DictKeys(JobResources(doc)[1]) = {"tasks"}
        /\ DictGet(JobResources(doc)[1], "tasks")
             = PyList(<< PyDict(<<
                   <<"task_key", Lit("t1")>>,
                   <<"notebook_task", PyDict(<<
                       <<"notebook_path", Lit("/x")>>,
                       <<"source", Lit("WORKSPACE")>> >>)>> >>) >>)
        /\ (job.name = <<"N","i","g","h","t","l","y"," ","S","y","n","c">> =>
                KeySet(JobsOf(doc)) = {<<"n","i","g","h","t","l","y","_","s","y","n","c">>})

\* C14: generate_bundle and generate_resources_only return a text or None,
\* whatever the remote calls and the encoding do; no exception leaves them.
C14_NoExceptionEscapes ==
    MadeAny => (IsText(out) \/ IsNone(out))
C14_Witness ==
    /\ Made("generate_bundle") /\ call.failure = "workspace_info_fails"
    /\ IsRaised(doc) /\ IsNone(out)

\* C19: the targets of every full-mode document include dev, staging and
\* prod, whatever target environment was asked for.
C19_ThreeTargets ==
    (Made("generate_bundle") /\ HasDoc) =>
        {"dev", "staging", "prod"} \subseteq DictKeys(DictGet(doc, "targets"))

PresentCompute(task) == {k \in Kinds(ComputeKinds) : Present(task, k)}
FirstCompute(ks) ==
    ComputeKinds[CHOOSE i \in DOMAIN ComputeKinds :
        ComputeKinds[i] \in ks /\ \A j \in 1..(i - 1) : ComputeKinds[j] \notin ks]
\* C22: a translated task has at most one of job_cluster_key,
\* existing_cluster_id, new_cluster: the first one set in that order, and
\* none when the source task sets none.
C22_OneComputeBinding ==
    (MadeAny /\ HasDoc /\ job.has_settings) =>
        \A r \in DOMAIN JobResources(doc) :
            DictHas(JobResources(doc)[r], "tasks") =>
                LET tasks == DictGet(JobResources(doc)[r], "tasks").v
                IN  \A i \in DOMAIN tasks :
                        LET emitted == DictKeys(tasks[i]) \cap Kinds(ComputeKinds)
                            present == PresentCompute(SourceTasks[i])
                        IN  /\ Cardinality(emitted) <= 1
                            /\ emitted = IF present = {} THEN {} ELSE {FirstCompute(present)}
C22_Witness ==
    /\ Made("generate_resources_only") /\ HasDoc /\ job.has_settings
    /\ job.shape.tasksAttr = "set" /\ Len(job.shape.tasks) = 1
    /\ job.shape.tasks[1].compute = {"job_cluster_key", "existing_cluster_id", "new_cluster"}
    /\ DictKeys(DictGet(JobResources(doc)[1], "tasks").v[1]) \cap Kinds(ComputeKinds)
         = {"job_cluster_key"}

\* C23: the document and the text of a call are those of the same call made
\* with the other value of include_dependencies: the hook changes nothing
\* and fails nothing.
C23_HookLeavesDocument ==
    MadeAny =>
        LET env == Env(job, call.failure, now, files)
            workflow == WorkflowInfo(JobObject(job))
            other == ~call.include_dependencies
        IN  IF Made("generate_resources_only")
            THEN /\ doc = ResourcesDocument(workflow, other, env)
                 /\ out = generate_resources_only(workflow, other, env)
            ELSE /\ doc = BundleDocument(workflow, Lit("my_bundle"), other, call.target, env)
                 /\ out = generate_bundle(workflow, Lit("my_bundle"), other, call.target, env)
C23_Witness ==
    /\ Made("generate_resources_only") /\ call.include_dependencies
    /\ call.failure = "ok" /\ job.has_settings /\ IsText(out)
    /\ job.shape.clusters = "fixed" /\ job.shape.schedule = "set"
    /\ Len(JobResources(doc)) = 1

NotEmptyValue(x) == ~IsNone(x) /\ ~IsEmptyList(x) /\ ~IsEmptyDict(x)
JobClustersOf(d) == DictGet(JobResources(d)[1], "job_clusters").v
SourceClusters == SourceSettings.v["job_clusters"].v
\* C25: in every translated job cluster, new_cluster has num_workers 1 when
\* the source cluster has no worker count, and no key of it has a null,
\* empty-list or empty-mapping value.
C25_ClusterDefaults ==
    (MadeAny /\ HasDoc /\ job.has_settings /\ Len(JobResources(doc)) = 1
        /\ DictHas(JobResources(doc)[1], "job_clusters")) =>
        \A i \in DOMAIN JobClustersOf(doc) :
            LET nc == DictGet(JobClustersOf(doc)[i], "new_cluster")
                src == SourceClusters[i].v["new_cluster"]
            IN  /\ Lacks(src, "num_workers") =>
                      (DictHas(nc, "num_workers") /\ DictGet(nc, "num_workers") = PyInt(1))
                /\ \A k \in DOMAIN nc.v : NotEmptyValue(nc.v[k][2])

\* the translated cluster specs of the document with their sources: the
\* job clusters' and the tasks' inline ones
ClusterPairs ==
    LET jr == JobResources(doc)[1]
    IN  (IF DictHas(jr, "job_clusters")
         THEN {<<DictGet(JobClustersOf(doc)[i], "new_cluster"),
                 SourceClusters[i].v["new_cluster"]>> : i \in DOMAIN JobClustersOf(doc)}
         ELSE {})
        \cup (IF DictHas(jr, "tasks")
              THEN {<<DictGet(DictGet(jr, "tasks").v[i], "new_cluster"),
                      SourceTasks[i].v["new_cluster"]>> :
                        i \in {j \in DOMAIN DictGet(jr, "tasks").v :
                                  DictHas(DictGet(jr, "tasks").v[j], "new_cluster")}}
              ELSE {})
\* C26: no translated cluster spec has both num_workers and autoscale, and a
\* source cluster with an autoscale policy and no worker count gives
\* autoscale alone.
C26_WorkersOrAutoscale ==
    (MadeAny /\ HasDoc /\ job.has_settings /\ Len(JobResources(doc)) = 1) =>
        \A pair \in ClusterPairs :
            /\ ~(DictHas(pair[1], "num_workers") /\ DictHas(pair[1], "autoscale"))
            /\ (Present(pair[2], "autoscale") /\ Lacks(pair[2], "num_workers")) =>
                  (DictHas(pair[1], "autoscale") /\ ~DictHas(pair[1], "num_workers"))

\* ------------------------------------- one call of a client operation
\* a slip: list_workflows without its decorator
ListWorkflowsUndecorated(env) ==
    IF IsRaised(env.jobs) THEN Raised ELSE PyList(MapSeq(env.jobs.v, WorkflowInfo))
\* DatabricksClient.list_workflows: env.jobs is what client.jobs.list gives;
\* the DatabricksError raised on a failure is turned into None by the decorator
list_workflows(env) ==
    IF ~env.authenticated THEN PyNone
    ELSE IF IsRaised(env.jobs) THEN PyNone
    ELSE PyList(MapSeq(env.jobs.v, WorkflowInfo))
\* the entry get_workspace_files makes of one object of the listing
FileInfo(path) ==
    PyDict(<< <<"path", PyStr(path)>>,
              <<"object_type", Lit("FILE")>>,
              <<"size", PyInt(0)>>,
              <<"modified_at", PyNone>>,
              <<"language", PyNone>> >>)
RECURSIVE Listing(_)
Listing(paths) ==
    IF paths = {} THEN <<>>
    ELSE LET p == CHOOSE x \in paths : TRUE
         IN  <<FileInfo(p)>> \o Listing(paths \ {p})
\* DatabricksClient.get_workspace_files: env.objects is what
\* client.workspace.list gives
get_workspace_files(env, path) ==
    IF ~env.authenticated THEN PyNone
    ELSE IF IsRaised(env.objects) THEN EmptyList
    ELSE PyList(Listing(env.objects.v))
\* the keyword parameters list_workflows declares
ListWorkflowsParameters == {"limit"}
\* the decorated list_workflows called with keyword arguments: a keyword it
\* does not declare is a TypeError, which the decorator turns into None
ListWorkflowsCalled(env, kwargs) ==
    IF kwargs \subseteq ListWorkflowsParameters THEN list_workflows(env) ELSE PyNone
\* DABOpsApp._fetch_workflows: the listing is called with user_only=...
_fetch_workflows(env, user_only) ==
    IF ~env.authenticated THEN EmptyList
    ELSE ListWorkflowsCalled(env, {"user_only"})

ClientPath == WorkspacePath(Lit("my_bundle"), Lit("me@example.com"))
InitClient ==
    /\ job \in TranslateJobs
    /\ call = NoCall
    /\ doc = PyNone
    /\ out = PyNone
    /\ files \in {{}, {ClientPath}}
    /\ now = 0
    /\ faults = 0
    /\ NoSession
    /\ NoBatch
ListWorkflows ==
    /\ call.op = "none"
    /\ \E failure \in {"ok", "list_fails"} :
        /\ call' = [NoCall EXCEPT !.op = "list_workflows", !.failure = failure]
        /\ out' = list_workflows(Env(job, failure, now, files))
    /\ UNCHANGED <<job, doc, remoteVars, sessionVars, batchVars>>
GetWorkflowDetails ==
    /\ call.op = "none"
    /\ \E failure \in {"ok", "get_fails", "runs_fail"} :
        /\ call' = [NoCall EXCEPT !.op = "get_workflow_details", !.failure = failure]
        /\ out' = get_workflow_details(Env(job, failure, now, files), PyInt(job.job_id))
    /\ UNCHANGED <<job, doc, remoteVars, sessionVars, batchVars>>
SaveFileToWorkspace ==
    /\ call.op = "none"
    /\ \E failure \in {"ok", "upload_fails"} :
        LET saved == save_file_to_workspace(ErrorComment, ClientPath,
                                            Env(job, failure, now, files))
        IN  /\ call' = [NoCall EXCEPT !.op = "save_file_to_workspace", !.failure = failure]
            /\ out' = saved
            /\ files' = IF IsTrue(saved) THEN files \cup {ClientPath} ELSE files
    /\ UNCHANGED <<job, doc, now, faults, sessionVars, batchVars>>
GetWorkspaceFiles ==
    /\ call.op = "none"
    /\ \E failure \in {"ok", "files_fail"} :
        /\ call' = [NoCall EXCEPT !.op = "get_workspace_files", !.failure = failure]
        /\ out' = get_workspace_files(Env(job, failure, now, files),
                                      FolderPath(Lit("me@example.com")))
    /\ UNCHANGED <<job, doc, remoteVars, sessionVars, batchVars>>
FetchWorkflows ==
    /\ call.op = "none"
    /\ \E failure \in {"ok", "list_fails", "workspace_info_fails"}, user_only \in BOOLEAN :
        /\ call' = [op |-> "_fetch_workflows", failure |-> failure, user_only |-> user_only]
        /\ out' = _fetch_workflows(Env(job, failure, now, files), user_only)
    /\ UNCHANGED <<job, doc, remoteVars, sessionVars, batchVars>>
NextClient ==
    \/ ListWorkflows \/ GetWorkflowDetails \/ SaveFileToWorkspace \/ GetWorkspaceFiles
    \/ FetchWorkflows
SpecClient == InitClient /\ [][NextClient]_vars

ClientOps == {"list_workflows", "get_workflow_details", "save_file_to_workspace",
              "get_workspace_files"}
ClientFailed == call.op \in ClientOps /\ call.failure /= "ok"
C27_FetchReturnsListing ==
    (Made("_fetch_workflows") /\ call.failure = "ok") =>
        /\ out = PyList(MapSeq(Env(job, "ok", now, files).jobs.v, WorkflowInfo))
        /\ out.t = "list" /\ Len(out.v) >= 1

\* -------------------------------------------- one save to the workspace
PathChars == {"a", ".", "_"}
BundleNames == StringsUpTo(PathChars, MaxNameLen)
ClockStarts == {0, 59, 3599, 45296}
Me == Lit("me@example.com")

InitPath ==
    /\ job = NoJob
    /\ call = NoCall
    /\ doc = PyNone
    /\ out = PyNone
    /\ files \in {{}} \cup {{WorkspacePath(PyStr(n), Me)} : n \in BundleNames}
    /\ now \in ClockStarts
    /\ faults = 0
    /\ NoSession
    /\ NoBatch

\* DABOpsApp.save_bundle_to_workspace; doc is its local final_path
SaveBundleToWorkspace ==
    /\ call.op = "none"
    /\ \E name \in BundleNames, failure \in {"ok", "status_fails", "upload_fails"} :
        LET env == Env(job, failure, now, files)
            content == ErrorComment
        IN  /\ call' = [op |-> "save_bundle_to_workspace", bundle_name |-> name,
                        failure |-> failure,
                        existed |-> WorkspacePath(PyStr(name), Me) \in files]
            /\ doc' = PyStr(FinalPath(PyStr(name), env))
            /\ out' = save_bundle_to_workspace(content, PyStr(name), env)
            /\ files' = FilesAfterSave(content, PyStr(name), env)
    /\ UNCHANGED <<job, now, faults, sessionVars, batchVars>>

NextPath == SaveBundleToWorkspace
SpecPath == InitPath /\ [][NextPath]_vars

Folder == <<"/Workspace/Users/", "me@example.com", "/dabops-agent-asset">>
Digit(c) == \E d \in DOMAIN DigitChars : DigitChars[d] = c
\* _YYYYMMDD_HHMMSS
IsTimestampSuffix(s) ==
    /\ Len(s) = 16
    /\ s[1] = "_" /\ s[10] = "_"
    /\ \A k \in (2..9) \cup (11..16) : Digit(s[k])
\* C9: when folder/baseFilename is not there the path is returned unchanged;
\* when it is there the result is, in the same folder, the base name with
\* _YYYYMMDD_HHMMSS before the extension, and differs from the original.
C9_UniquePath ==
    (Made("save_bundle_to_workspace") /\ call.failure /= "status_fails") =>
        LET original == Folder \o <<"/">> \o call.bundle_name \o <<".", "yml">>
            n == Len(Folder) + 1 + Len(call.bundle_name)
        IN  IF call.existed
            THEN /\ Len(doc.v) = n + 16 + 2
                 /\ SubSeq(doc.v, 1, n) = Folder \o <<"/">> \o call.bundle_name
                 /\ IsTimestampSuffix(SubSeq(doc.v, n + 1, n + 16))
                 /\ SubSeq(doc.v, n + 1, n + 16) = <<"_">> \o Strftime(now)
                 /\ SubSeq(doc.v, n + 17, n + 18) = <<".", "yml">>
                 /\ doc.v /= original
            ELSE doc.v = original
C9_Witness ==
    /\ Made("save_bundle_to_workspace") /\ call.failure = "ok" /\ call.existed
    /\ call.bundle_name = <<"a", ".">> /\ now = 45296
    /\ doc.v = Folder \o <<"/", "a", ".", "_", "2","0","2","4","0","1","1","5", "_",
                           "1","2","3","4","5","6", ".", "yml">>

\* C10: when the existence check itself fails, the original unsuffixed path
\* is returned and no error leaves the save.
C10_StatusFailure ==
    (Made("save_bundle_to_workspace") /\ call.failure = "status_fails") =>
        /\ doc.v = Folder \o <<"/">> \o call.bundle_name \o <<".", "yml">>
        /\ out.t = "bool"
C10_Witness ==
    /\ Made("save_bundle_to_workspace") /\ call.failure = "status_fails" /\ call.existed
    /\ doc.v = Folder \o <<"/">> \o call.bundle_name \o <<".", "yml">>
    /\ IsTrue(out)

\* ------------------------------------------- app.py, generate_bundles
\* the jobs of the workspace: job 2 has no settings, jobs 1 and 3 have names
\* that differ only in case
CatalogJob(id) ==
    [job_id |-> id,
     name |-> CASE id = 1 -> <<"A", " ", "b">>
                [] id = 3 -> <<"a", " ", "b">>
                [] id = 4 -> <<"E", "T", "L">>
                [] OTHER -> <<"j", DigitChars[(id % 10) + 1]>>,
     has_settings |-> id /= 2,
     shape |-> PlainShape]
RECURSIVE Ascending(_)
Ascending(ids) ==
    IF ids = {} THEN <<>>
    ELSE LET m == CHOOSE x \in ids : \A y \in ids : x <= y
         IN  <<m>> \o Ascending(ids \ {m})
\* the listing of the workspace: the summary of every job, worked out once
Summaries == MapSeq(Ascending(1..MaxBatch), LAMBDA id : WorkflowInfo(JobObject(CatalogJob(id))))
Summary(id) == Summaries[id]
\* what generate_resources_only and the detail fetch give for a job of the
\* listing: they depend on the job, the flag, what fails and the clock
\* alone, so the results are worked out once, for every job
\* [job][flag][failure][clock]
BatchFailures == <<"ok", "get_fails", "yaml_fails">>
ResourcesOfJob(id, include_dependencies, failure, t) ==
    LET env == Env(CatalogJob(id), failure, t, {})
    IN  [content |-> generate_resources_only(Summary(id), include_dependencies, env),
         fetched |-> Truthy(get_workflow_details(env, DictGet(Summary(id), "job_id")))]
Generated ==
    MapSeq(Ascending(1..MaxBatch), LAMBDA id :
        MapSeq(<<FALSE, TRUE>>, LAMBDA flag :
            MapSeq(BatchFailures, LAMBDA failure :
                MapSeq(Ascending(0..MaxTick), LAMBDA t :
                    ResourcesOfJob(id, flag, failure, t)))))
\* the selections: the jobs of a nonempty set of job ids, in listing order
Selections ==
    {Ascending(ids) : ids \in (SUBSET (1..MaxBatch)) \ {{}}}
Prefix == PyStr(<<"r">>)

\* what an earlier batch of the session left in the session state: job 1
\* alone, generated with the button "generate" and no saving
EarlierBundle ==
    [workflow |-> Summary(1),
     bundle_name |-> Prefix,
     content |-> generate_resources_only(Summary(1), TRUE, Env(CatalogJob(1), "ok", 0, {})),
     generation_time |-> PyStr(IsoFormat(0)),
     auto_saved |-> PyBool(FALSE)]
EarlierSession ==
    /\ generated_bundles = <<EarlierBundle>>
    /\ generation_history =
          <<[time |-> PyStr(IsoFormat(0)), count |-> 1,
             workflows |-> <<DictGetOr(Summary(1), "name", Lit("Unknown"))>>]>>
    /\ last_generation_time = PyStr(IsoFormat(0))

\* a session that is new or has one earlier batch in it, before a batch
Init ==
    /\ job = NoJob
    /\ call = NoCall
    /\ doc = PyNone
    /\ out = PyNone
    /\ \/ /\ NoSession
          /\ files \in {{}, {WorkspacePath(Prefix, Me)},
                        {WorkspacePath(PyStr(<<"r", "_", "a", "_", "b">>), Me)}}
       \/ /\ EarlierSession
          /\ files = {}
    /\ now = 0
    /\ faults = 0
    /\ NoBatch

\* a slip: the name of the workflow appended whatever the size of the batch
BundleNameAlwaysSuffixed(workflow, workflows, bundle_name_prefix) ==
    PyStr(bundle_name_prefix.v \o <<"_">>
          \o StrReplace(StrLower(DictGetOr(workflow, "name", Lit("Unknown")).v), " ", "_"))
\* the name of the file of one workflow of the batch
BundleName(workflow, workflows, bundle_name_prefix) ==
    IF Len(workflows) = 1 THEN bundle_name_prefix
    ELSE PyStr(bundle_name_prefix.v \o <<"_">>
               \o StrReplace(StrLower(DictGetOr(workflow, "name", Lit("Unknown")).v), " ", "_"))

\* a slip: the saving loop skipped
AfterLoopNeverSaves(bundles, auto_save) ==
    IF Len(bundles) = 0 THEN "done" ELSE "store"
\* what the batch does once the loop is over
AfterLoop(bundles, auto_save) ==
    IF Len(bundles) = 0 THEN "done"
    ELSE IF auto_save THEN "save" ELSE "store"

\* a slip: the list walked from its end
WorkflowAtReversed(workflows, k) == workflows[Len(workflows) + 1 - k]
\* the workflow of turn k of the loop: enumerate(workflows)
WorkflowAt(workflows, k) == workflows[k]

\* a slip: a regenerated document put in the place of the stored one of
\* the same name
ExtendPatching(stored, bundles) ==
    LET Same(a, b) == a.bundle_name = b.bundle_name
        patched == [k \in DOMAIN stored |->
                       IF \E b \in DOMAIN bundles : Same(stored[k], bundles[b])
                       THEN bundles[CHOOSE b \in DOMAIN bundles : Same(stored[k], bundles[b])]
                       ELSE stored[k]]
    IN  patched \o SelectSeq(bundles,
                      LAMBDA b : \A k \in DOMAIN stored : ~Same(stored[k], b))
\* st.session_state.generated_bundles.extend(generated_bundles)
Extend(stored, bundles) == stored \o bundles

\* a slip: the entry counting the workflows selected
HistoryEntryOfSelection(time, bundles, workflows) ==
    [time |-> time, count |-> Len(workflows),
     workflows |-> MapSeq(workflows, LAMBDA w : DictGetOr(w, "name", Lit("Unknown")))]
\* the entry of generation_history of a batch
HistoryEntry(time, bundles, workflows) ==
    [time |-> time, count |-> Len(bundles),
     workflows |-> MapSeq(workflows, LAMBDA w : DictGetOr(w, "name", Lit("Unknown")))]

\* a button of render_bundle_generation calls generate_bundles, which clears
\* the session when asked and sets up its locals
StartBatch ==
    /\ bpc = "idle"
    /\ \E sel \in Selections, include_dependencies \in BOOLEAN, clear_previous \in BOOLEAN,
          button \in {"generate", "generate_and_download"}, auto_save_to_workspace \in BOOLEAN :
        /\ button = "generate_and_download" => ~auto_save_to_workspace
        /\ args' = [workflows |-> sel, bundle_name_prefix |-> Prefix,
                    include_dependencies |-> include_dependencies,
                    auto_save |-> button = "generate" /\ auto_save_to_workspace,
                    clear_previous |-> clear_previous,
                    download_all |-> button = "generate_and_download"]
        /\ generated_bundles' = IF clear_previous THEN <<>> ELSE generated_bundles
        /\ generation_history' = IF clear_previous THEN <<>> ELSE generation_history
    /\ bpc' = "loop"
    /\ idx' = 1
    /\ new_bundles' = <<>>
    /\ failed_bundles' = <<>>
    /\ fetched' = <<>>
    /\ uploads' = <<>>
    /\ entry' = sessionVars
    /\ generation_time' = PyStr(IsoFormat(now))
    /\ UNCHANGED <<callVars, remoteVars, last_generation_time>>

\* one turn of the loop of generate_bundles: fetch, translate, serialize and
\* record workflow idx
ProcessWorkflow ==
    /\ bpc = "loop"
    /\ \E f \in DOMAIN BatchFailures :
        /\ BatchFailures[f] /= "ok" => faults < MaxFaults
        /\ LET id == WorkflowAt(args.workflows, idx)
               workflow == Summary(id)
               result == Generated[id][IF args.include_dependencies THEN 2 ELSE 1][f][now + 1]
               bundle_content == result.content
               bundles == IF Truthy(bundle_content)
                          THEN Append(new_bundles,
                                   [workflow |-> workflow,
                                    bundle_name |-> BundleName(workflow,
                                        MapSeq(args.workflows, Summary), args.bundle_name_prefix),
                                    content |-> bundle_content,
                                    generation_time |-> generation_time,
                                    auto_saved |-> PyBool(FALSE)])
                          ELSE new_bundles
           IN  /\ new_bundles' = bundles
               /\ failed_bundles' = IF Truthy(bundle_content) THEN failed_bundles
                                    ELSE Append(failed_bundles,
                                                DictGetOr(workflow, "name", Lit("Unknown")))
               /\ fetched' = Append(fetched, result.fetched)
               /\ bpc' = IF idx = Len(args.workflows)
                         THEN AfterLoop(bundles, args.auto_save) ELSE "loop"
        /\ faults' = IF BatchFailures[f] = "ok" THEN faults ELSE faults + 1
    /\ idx' = IF idx = Len(args.workflows) THEN 1 ELSE idx + 1
    /\ UNCHANGED <<callVars, files, now, sessionVars, args, generation_time, uploads, entry>>

\* one turn of the auto-save loop: save bundle idx and note the outcome; the
\* clock is read here, after 'elapsed' more seconds
SaveBundle ==
    /\ bpc = "save"
    /\ \E failure \in {"ok", "status_fails", "upload_fails"}, elapsed \in {0, 1} :
        /\ failure /= "ok" => faults < MaxFaults
        /\ now + elapsed <= MaxTick
        /\ now' = now + elapsed
        /\ LET env == Env(NoJob, failure, now + elapsed, files)
               bundle_data == new_bundles[idx]
               success == save_bundle_to_workspace(bundle_data.content,
                                                   bundle_data.bundle_name, env)
           IN  /\ new_bundles' = [new_bundles EXCEPT ![idx].auto_saved = success]
               /\ files' = FilesAfterSave(bundle_data.content, bundle_data.bundle_name, env)
               /\ uploads' = Append(uploads,
                      [bundle |-> idx,
                       path |-> FinalPath(bundle_data.bundle_name, env),
                       existed |-> FinalPath(bundle_data.bundle_name, env) \in files,
                       ok |-> ~env.upload_fails])
        /\ faults' = IF failure = "ok" THEN faults ELSE faults + 1
    /\ bpc' = IF idx = Len(new_bundles) THEN "store" ELSE "save"
    /\ idx' = IF idx = Len(new_bundles) THEN 1 ELSE idx + 1
    /\ UNCHANGED <<callVars, sessionVars, args, failed_bundles, generation_time, fetched,
                   entry>>

\* the end of generate_bundles: the new bundles go to the session state
StoreResults ==
    /\ bpc = "store"
    /\ generated_bundles' = Extend(generated_bundles, new_bundles)
    /\ generation_history' = Append(generation_history,
            HistoryEntry(generation_time, new_bundles, MapSeq(args.workflows, Summary)))
    /\ last_generation_time' = generation_time
    /\ bpc' = "done"
    /\ UNCHANGED <<callVars, remoteVars, args, idx, new_bundles, failed_bundles,
                   generation_time, fetched, uploads, entry>>

\* the button "Clear All Previous"
ClearAllPrevious ==
    /\ bpc \in {"idle", "done"}
    /\ Len(generated_bundles) > 0 \/ Len(generation_history) > 0
    /\ generated_bundles' = <<>>
    /\ generation_history' = <<>>
    /\ UNCHANGED <<callVars, remoteVars, last_generation_time, batchVars>>

\* the button "Save" of a stored bundle not yet saved, in
\* display_generated_bundles, pressed between two batches: the bundle is
\* marked when the save succeeds
ManualSave ==
    /\ bpc = "idle"
    /\ \E k \in DOMAIN generated_bundles,
          failure \in {"ok", "status_fails", "upload_fails"} :
        /\ ~Truthy(generated_bundles[k].auto_saved)
        /\ LET env == Env(NoJob, failure, now, files)
               bundle_data == generated_bundles[k]
               success == save_bundle_to_workspace(bundle_data.content,
                                                   bundle_data.bundle_name, env)
           IN  /\ generated_bundles' =
                      IF Truthy(success)
                      THEN [generated_bundles EXCEPT ![k].auto_saved = PyBool(TRUE)]
                      ELSE generated_bundles
               /\ files' = FilesAfterSave(bundle_data.content, bundle_data.bundle_name, env)
    /\ UNCHANGED <<callVars, now, faults, generation_history, last_generation_time,
                   batchVars>>

Next ==
    \/ StartBatch
    \/ ProcessWorkflow
    \/ SaveBundle
    \/ StoreResults
    \/ ClearAllPrevious
    \/ ManualSave
Spec == Init /\ [][Next]_vars

NameOf(id) == DictGetOr(Summary(id), "name", Lit("Unknown"))
\* the workflows among the first k of the batch whose detail fetch gave a
\* detail (flag TRUE) or null (flag FALSE), in batch order
RECURSIVE Outcome(_, _)
Outcome(k, flag) ==
    IF k = 0 THEN <<>>
    ELSE Outcome(k - 1, flag) \o (IF fetched[k] = flag THEN <<args.workflows[k]>> ELSE <<>>)
BatchOver == bpc \in {"save", "store", "done"}

\* C1: a batch never stops early: every workflow of the selection is
\* processed in order, the workflows whose detail fetch
\* returned null are exactly the recorded failures, and every other workflow
\* has a text document among the successes (so 3 workflows with the second
\* one's fetch returning null give 2 successes and 1 failure).
C1_BatchResilience ==
    bpc /= "idle" =>
        /\ Len(fetched) = IF BatchOver THEN Len(args.workflows) ELSE idx - 1
        /\ failed_bundles = MapSeq(Outcome(Len(fetched), FALSE), NameOf)
        /\ MapSeq(new_bundles, LAMBDA b : b.workflow)
             = MapSeq(Outcome(Len(fetched), TRUE), Summary)
        /\ \A b \in DOMAIN new_bundles :
              IsText(new_bundles[b].content) /\ Truthy(new_bundles[b].content)
C1_Witness ==
    /\ bpc = "done" /\ args.workflows = <<1, 2, 3>>
    /\ fetched = <<TRUE, FALSE, TRUE>>
    /\ Len(new_bundles) = 2 /\ Len(failed_bundles) = 1
    /\ failed_bundles[1] = NameOf(2)
    /\ Len(generated_bundles) = 2

\* C3: a workflow of a batch whose detail was fetched but has no settings is
\* in the failure list and has no entry among the successful documents.
C3_NoSettingsRecorded ==
    \A k \in DOMAIN fetched :
        (fetched[k] /\ ~CatalogJob(args.workflows[k]).has_settings) =>
            /\ \E f \in DOMAIN failed_bundles : failed_bundles[f] = NameOf(args.workflows[k])
            /\ \A b \in DOMAIN new_bundles :
                  new_bundles[b].workflow /= Summary(args.workflows[k])

\* the name of a workflow lowercased, its spaces replaced by underscores
SanitizedName(id) ==
    LET name == CatalogJob(id).name
    IN  IF ~CatalogJob(id).has_settings THEN <<"u","n","n","a","m","e","d","_","j","o","b">>
        ELSE [k \in DOMAIN name |-> IF name[k] = " " THEN "_" ELSE LowerChar(name[k])]
JobOfBundle(b) == DictGet(b.workflow, "job_id").v
\* C15: in a batch of one workflow the bundle name is the prefix; in a batch
\* of two or more, each bundle name is the prefix, an underscore and the
\* sanitized name of the workflow.
C15_BundleNaming ==
    \A b \in DOMAIN new_bundles :
        new_bundles[b].bundle_name.v =
            IF Len(args.workflows) = 1 THEN <<"r">>
            ELSE <<"r", "_">> \o SanitizedName(JobOfBundle(new_bundles[b]))
C15_Witness ==
    /\ bpc = "done" /\ args.workflows = <<1, 2>> /\ Len(new_bundles) = 2
    /\ new_bundles[1].bundle_name.v = <<"r", "_", "a", "_", "b">>
    /\ new_bundles[2].bundle_name.v
         = <<"r", "_", "u","n","n","a","m","e","d","_","j","o","b">>

IsPrefix(a, b) == Len(a) <= Len(b) /\ SubSeq(b, 1, Len(a)) = a
\* a step of generate_bundles, from the button to the session state
BatchStep == bpc \in {"loop", "save", "store"} \/ (bpc = "idle" /\ bpc' = "loop")
\* C16: the session history is append-only: over every step of a batch
\* generation, generated_bundles and generation_history before the step are
\* prefixes of what they are after it.
C16_AppendOnly ==
    [][BatchStep => /\ IsPrefix(generated_bundles, generated_bundles')
                    /\ IsPrefix(generation_history, generation_history')]_vars

\* C17: with auto_save, once the saving loop is over every successful
\* document of the batch has gone exactly once, in order, through
\* save_bundle_to_workspace and its auto_saved field is the outcome of its
\* upload; without auto_save nothing was uploaded and every auto_saved is
\* False. The entries stored in the session are those documents.
C17_AutoSave ==
    (bpc \in {"store", "done"} /\ Len(new_bundles) > 0) =>
        /\ IF args.auto_save
           THEN /\ Len(uploads) = Len(new_bundles)
                /\ \A k \in DOMAIN uploads :
                      /\ uploads[k].bundle = k
                      /\ new_bundles[k].auto_saved = PyBool(uploads[k].ok)
                      /\ uploads[k].ok => uploads[k].path \in files
           ELSE /\ uploads = <<>>
                /\ \A b \in DOMAIN new_bundles : new_bundles[b].auto_saved = PyBool(FALSE)
        /\ (bpc = "done" /\ Len(generated_bundles) > 0) =>
               SubSeq(generated_bundles, Len(generated_bundles) - Len(new_bundles) + 1,
                      Len(generated_bundles)) = new_bundles
C17_Witness ==
    /\ bpc = "done" /\ args.auto_save /\ Len(new_bundles) = 2 /\ Len(uploads) = 2
    /\ uploads[1].ok /\ ~uploads[2].ok
    /\ Len(generated_bundles) >= 2
    /\ generated_bundles[Len(generated_bundles) - 1].auto_saved = PyBool(TRUE)
    /\ generated_bundles[Len(generated_bundles)].auto_saved = PyBool(FALSE)

\* C20: no upload of save_bundle_to_workspace goes to a path where a file
\* already was, be it there before the batch or written by it.
C20_NoOverwrite ==
    \A k \in DOMAIN uploads : uploads[k].ok => ~uploads[k].existed

\* C21: over every step, a document stored in the session keeps its
\* content, bundle name, workflow and generation time for as long as it is
\* stored, and its auto_saved changes only from False to True.
C21_StoredDocumentsFixed ==
    [][\A k \in (DOMAIN generated_bundles) \cap (DOMAIN generated_bundles') :
          /\ generated_bundles'[k].content = generated_bundles[k].content
          /\ generated_bundles'[k].bundle_name = generated_bundles[k].bundle_name
          /\ generated_bundles'[k].workflow = generated_bundles[k].workflow
          /\ generated_bundles'[k].generation_time = generated_bundles[k].generation_time
          /\ generated_bundles'[k].auto_saved /= generated_bundles[k].auto_saved =>
                /\ generated_bundles[k].auto_saved = PyBool(FALSE)
                /\ generated_bundles'[k].auto_saved = PyBool(TRUE)]_vars
\* the earlier document saved by hand, then its workflow generated again
\* under the same name: the stored document is as it was, the new one is
\* another entry
C21_Witness ==
    /\ bpc = "done" /\ Len(generated_bundles) = 2
    /\ generated_bundles[1] = [EarlierBundle EXCEPT !.auto_saved = PyBool(TRUE)]
    /\ generated_bundles[2].bundle_name = EarlierBundle.bundle_name
    /\ generated_bundles[2].workflow = EarlierBundle.workflow
    /\ generated_bundles[2].auto_saved = PyBool(FALSE)

\* where a workflow is in the selection, found by its job_id
Position(workflow) ==
    CHOOSE k \in DOMAIN args.workflows : PyInt(args.workflows[k]) = DictGet(workflow, "job_id")
\* C24: the batch takes the workflows in list order, one at a time: the
\* outcome of every workflow before the current one is recorded and nothing
\* of a later one is; no upload is made before every outcome is recorded,
\* and the uploads go through the documents in order, one per turn.
C24_StrictOrder ==
    bpc /= "idle" =>
        /\ Len(new_bundles) + Len(failed_bundles) = Len(fetched)
        /\ bpc = "loop" => (Len(fetched) = idx - 1 /\ uploads = <<>>)
        /\ \A b \in DOMAIN new_bundles : Position(new_bundles[b].workflow) <= Len(fetched)
        /\ \A a, b \in DOMAIN new_bundles :
              a < b => Position(new_bundles[a].workflow) < Position(new_bundles[b].workflow)
        /\ uploads /= <<>> => Len(fetched) = Len(args.workflows)
        /\ \A k \in DOMAIN uploads : uploads[k].bundle = k
        /\ bpc = "save" => Len(uploads) = idx - 1
C24_Witness ==
    /\ bpc = "save" /\ idx = 2 /\ Len(args.workflows) = 3
    /\ Len(new_bundles) = 2 /\ Len(failed_bundles) = 1 /\ Len(uploads) = 1

\* C28: the step that ends a batch with no document leaves
\* generated_bundles, generation_history and last_generation_time as they
\* were when generate_bundles was called.
C28_EmptyBatchNoEffect ==
    [][(bpc /= "done" /\ bpc' = "done" /\ new_bundles' = <<>>) => sessionVars' = entry']_vars

RECURSIVE SumCounts(_)
SumCounts(history) ==
    IF history = <<>> THEN 0 ELSE history[1].count + SumCounts(Tail(history))
\* C29: the counts of generation_history add up to the number of stored
\* documents, and every count is at least 1.
C29_HistoryCounts ==
    /\ SumCounts(generation_history) = Len(generated_bundles)
    /\ \A h \in DOMAIN generation_history : generation_history[h].count >= 1
\* an earlier document saved by hand, then a batch of three with one failure
C29_Witness ==
    /\ bpc = "done" /\ Len(generation_history) = 2
    /\ generation_history[2].count = 2 /\ Len(generation_history[2].workflows) = 3
    /\ Len(generated_bundles) = 3
    /\ generated_bundles[1].auto_saved = PyBool(TRUE)

\* C30: no document the batch records as a success, and none stored in the
\* session, is the error comment line alone.
C30_NoErrorCommentStored ==
    /\ \A b \in DOMAIN new_bundles : new_bundles[b].content /= ErrorComment
    /\ \A b \in DOMAIN generated_bundles : generated_bundles[b].content /= ErrorComment
====
